---- MODULE Spec2Model ----
(***************************************************************************)
(* A model of doppelganger113/ssevents: the reconnecting SSE Client with   *)
(* its Observer fanout dispatcher, and the HttpController that broadcasts  *)
(* emitted events to the open streaming connections.                       *)
(*                                                                         *)
(* Go channels are modelled by their buffer (a sequence), their capacity   *)
(* and the number of close() calls made on them.  A send on an unbuffered  *)
(* channel is a hand-off to a receiver that is blocked on the channel.  A  *)
(* send on a closed channel and a second close() panic: the process        *)
(* crashes, which is recorded in `panicked` and disables every action.     *)
(***************************************************************************)
EXTENDS Naturals, Integers, Sequences, FiniteSets, TLC

\* ------------------------------------------------------------ bounds ----
\* number of Observers subscribed to the Client
NumObs == 2
\* number of events the server side ever puts on the client's streams
MaxEvents == 3
\* the same, where the reconnection loop is explored in full
MaxEventsReconn == 1
\* largest Limit(k) an Observer is built with
MaxLimit == 2
\* how many times the 60 second window may expire between two attempts of
\* the loop followed without a clock (LoopTop); the expiry itself is
\* followed against the clock by LoopTopTimed, which this does not bound
MaxResets == 0
\* how many validated connections the network lets the client make
MaxConnects == 2
\* the same, in the runs that follow the loop against the clock
MaxConnectsWindow == 3
\* how many times application code calls Client.Shutdown
MaxExtShutdowns == 2

\* number of streaming connections the server accepts
NumConns == 2
\* number of events the producer emits
MaxEmits == 2
\* number of heartbeat ticks per connection
MaxTicks == 1
\* largest Options.BufferSize
MaxBufferSize == 2

\* --------------------------------------------------- program constants --
\* part_006:398  if retryCounter > 3
RetryCap == 3
\* part_006:173  firstConnCh: make(chan struct{}, 1)
FirstConnChCap == 1
eventNameHeartbeat == "heartbeat"

\* observer.go:236  data := make(chan Event, 1)
DataChCap == 1
\* options.go:61  updatedOptions.BufferSize = 1
BufferSizeDefault == 1

EmitStrategyBlock == "Block"
EmitStrategyDrop == "Drop"
EmitStrategyTimeout == "Timeout"
EmitStrategies == {EmitStrategyBlock, EmitStrategyDrop, EmitStrategyTimeout}

ConnIds == 1..NumConns
ObsIds == 1..NumObs
NIL == 0
EventNames == {"", eventNameHeartbeat}

NoEvent == [name |-> "none", data |-> 0]

\* ----------------------------------------------------------- helpers ----
Min(a, b) == IF a < b THEN a ELSE b

Take(s, n) == SubSeq(s, 1, Min(n, Len(s)))

RangeOf(s) == {s[i] : i \in 1..Len(s)}

\* ------------------------------------------------- the ObserverBuilder --
NewObserverBuilder ==
    [filters |-> <<>>, closeOnFirst |-> FALSE, limit |-> 0, buffer |-> 0,
     includeHeartbeat |-> FALSE]

IncludeHeartbeat(b) == [b EXCEPT !.includeHeartbeat = TRUE]

Filter(b, f) == [b EXCEPT !.filters = Append(b.filters, f)]

On(b, event) == Filter(b, [kind |-> "On", event |-> event])

First(b) == [b EXCEPT !.closeOnFirst = TRUE]

Limit(b, k) == [b EXCEPT !.limit = k]

Buffer(b, count) == [b EXCEPT !.buffer = count]

FilterNoHeartbeatDesc == [kind |-> "NoHeartbeat", event |-> eventNameHeartbeat]

Build(b) ==
    LET bb == IF ~b.includeHeartbeat THEN Filter(b, FilterNoHeartbeatDesc) ELSE b
    IN  [filters |-> bb.filters, limit |-> bb.limit,
         closeOnFirst |-> bb.closeOnFirst, buffer |-> bb.buffer]

\* an On filter that does not look at the name
ApplyFilterAnyName(f, e) == e.name # eventNameHeartbeat \/ f.kind = "On"

\* the value of one filter predicate on an event
ApplyFilter(f, e) ==
    IF f.kind = "On" THEN e.name = f.event
    ELSE e.name # eventNameHeartbeat

FilterNoHeartbeat(e) == ApplyFilter(FilterNoHeartbeatDesc, e)

\* an Observer that lets every event through
hasSatisfiedFiltersNone(o, e) == Len(o.filters) >= 0

hasSatisfiedFilters(o, e) ==
    \A i \in 1..Len(o.filters) : ApplyFilter(o.filters[i], e)

\* the event name of the filtering scenario
eventNameCustom == "Custom"

\* Observers with name filters and with heartbeats let through
FilterBuilds ==
    {Build(Limit(IncludeHeartbeat(NewObserverBuilder), k)) : k \in 1..MaxLimit}
    \cup {Build(Limit(On(NewObserverBuilder, eventNameCustom), k)) :
             k \in 1..MaxLimit}
    \cup {Build(First(IncludeHeartbeat(NewObserverBuilder))),
          Build(Limit(NewObserverBuilder, MaxLimit)),
          Build(On(NewObserverBuilder, eventNameHeartbeat))}

\* the Observers the model subscribes: chains of builder calls
ObserverBuilds ==
    {Build(Buffer(Limit(NewObserverBuilder, k), k - 1)) : k \in 1..MaxLimit}
    \cup {Build(First(NewObserverBuilder)),
          Build(IncludeHeartbeat(NewObserverBuilder))}


\* ------------------------------------------------------------- state ----
VARIABLES
    \* Observer (observer.go:8-16), one per ObsIds
    obsCfg,               \* filters, closeOnFirst, limit, buffer as built
    emittedCount,         \* Observer.emittedCount
    EventCh,              \* buffer of Observer.EventCh
    EventChCloses,        \* number of close() calls on Observer.EventCh
    \* Client (part_006:130-144)
    dropSlowConsumerMsgs,
    observers,            \* backing array of Client.observers (NIL = nil)
    obsLen,               \* len(Client.observers)
    closed,
    firstConnEstablished,
    firstConnCh,          \* number of values buffered in firstConnCh
    shutdownCtxDone,      \* shutdownCtx has been canceled
    eventChCloses,        \* number of close() calls on eventCh
    errorChCloses,        \* number of close() calls on errorCh
    lockHolder,           \* who holds the Client's mutex
    panicked,             \* "" or the runtime panic that ended the process
    \* the caller of Start
    startPc,
    \* runReconnectionLoop / connectAndListen / ReadEvents
    loopPc, retryCounter, lastTimeConnectedZero, connErr, pending, streamNext,
    \* fanout and its slices.DeleteFunc pass
    fanoutPc, fEvt, fI, obsForRemoval, dI, dJ,
    \* Shutdown body and the application calling it
    sdPc, sdI, extCalls,
    \* WaitForAll readers, one per Observer
    readerPc, recvd,
    \* the callers of WaitForAllOrTimeout and what the call returned
    waitPc, result,
    \* the consumer of Errors()
    errPc,
    \* the environment: how many events the server side will ever send
    streamLen,
    \* the codec: the Event given to the encoder, the lines ReadEvents has
    \* still to scan, its accumulator `event`, what it sent on `out`, and
    \* (history) the lines it has scanned
    codecIn, decLines, decEvent, decOut, codecPc, decRead,
    \* the clock, in seconds; runReconnectionLoop's lastTimeConnected; and
    \* (history) the clock at the start of each connection attempt
    now, lastTimeConnected, attemptAt,
    \* history
    attempts,             \* calls of connectAndListen
    resets,               \* times the 60s window had expired at an attempt
    connects,             \* validated connections
    readySignals,         \* sends on firstConnCh
    fatalOffers,          \* publish attempts of ErrToManyFailedReconnects
    fatalDelivered,       \* of these, received by the error consumer
    errDropped,           \* a connect or decode error was dropped at 390
    dispatched,           \* events the fanout took from eventCh, in order
    \* HttpController (observer.go:87-94)
    emitStrategy,         \* options.EmitStrategy
    bufferSize,           \* options.BufferSize
    ctrlDone,             \* the controller's shutdownCtx has been canceled
    subscribers,          \* keys of the sync.Map: connections registered
    \* per connection: Middleware (observer.go:214-268)
    mwPc,
    data,                 \* buffer of the data channel
    dataCloses,           \* number of close() calls on the data channel
    handlerCanceled,      \* handlerCleanup() has been called
    tickerStopped,
    ticks,                \* heartbeat ticks taken
    clientGone,           \* the peer went away: req.Context() is done
    written,              \* records written and flushed to the connection
    \* per connection: the SSE handler (part_006:38-63)
    hPc,
    subscribeCh,          \* buffer of subscribeCh
    subscribeChCloses,    \* number of close() calls on subscribeCh
    held,                 \* the event taken from subscribeCh, to forward
    \* the producer calling Emit
    emitPc, emitNext, emitVisited, emitSnap,
    \* history
    skipped,              \* per connection: events skipped by a broadcast
    \* the emit endpoint: the last submission, its response status, and the
    \* data of the Event each call of Emit was given
    lastSub, respStatus, emitData

ctrlVars == <<emitStrategy, bufferSize, subscribers>>
mwVars == <<mwPc, data, dataCloses, handlerCanceled, tickerStopped, ticks,
            clientGone, written>>
hVars == <<hPc, subscribeCh, subscribeChCloses, held>>
emitVars == <<emitPc, emitNext, emitVisited, emitSnap>>
postVars == <<lastSub, respStatus, emitData>>
srvHistVars == <<skipped, postVars>>
serverVars == <<ctrlVars, mwVars, hVars, emitVars, srvHistVars>>

codecVars == <<codecIn, decLines, decEvent, decOut, codecPc, decRead>>
clockVars == <<now, lastTimeConnected, attemptAt>>
cfgVars == <<obsCfg, dropSlowConsumerMsgs, firstConnEstablished, streamLen,
             codecVars, clockVars>>
obsVars == <<emittedCount, EventCh, EventChCloses, observers, obsLen>>
cliVars == <<closed, firstConnCh, shutdownCtxDone, eventChCloses,
             errorChCloses, lockHolder>>
loopVars == <<loopPc, retryCounter, lastTimeConnectedZero, connErr, pending,
              streamNext>>
fanVars == <<fanoutPc, fEvt, fI, obsForRemoval, dI, dJ>>
sdVars == <<sdPc, sdI, extCalls>>
rdVars == <<readerPc, recvd, waitPc, result>>
histVars == <<attempts, resets, connects, readySignals, fatalOffers,
              fatalDelivered, errDropped, dispatched>>
clientVars == <<cfgVars, obsVars, cliVars, loopVars, fanVars, sdVars, rdVars,
                histVars, panicked, startPc, errPc>>

vars == <<clientVars, serverVars, ctrlDone>>

Alive == panicked = ""

\* NewSSEClient followed by Subscribe of the first nSub built Observers,
\* before Start; readers0 tells whether WaitForAll is already being called.
\* The first Observer is built by any chain of builds, the others by one
\* common chain.
InitClient(builds, policies, nSub, readers0, nEvents) ==
    /\ obsCfg \in {[o \in ObsIds |-> IF o = 1 THEN b1 ELSE b2] :
                      b1 \in builds, b2 \in builds}
    /\ dropSlowConsumerMsgs \in policies
    /\ streamLen = nEvents
    /\ emittedCount = [o \in ObsIds |-> 0]
    /\ EventCh = [o \in ObsIds |-> <<>>]
    /\ EventChCloses = [o \in ObsIds |-> 0]
    /\ observers = [i \in ObsIds |-> IF i <= nSub THEN i ELSE NIL]
    /\ obsLen = nSub
    /\ closed = FALSE
    /\ firstConnEstablished = FALSE
    /\ firstConnCh = 0
    /\ shutdownCtxDone = FALSE
    /\ eventChCloses = 0
    /\ errorChCloses = 0
    /\ lockHolder = "none"
    /\ panicked = ""
    /\ startPc = "init"
    /\ loopPc = "idle"
    /\ retryCounter = 0
    /\ lastTimeConnectedZero = TRUE
    /\ connErr = FALSE
    /\ pending = NoEvent
    /\ streamNext = 1
    /\ fanoutPc = "idle"
    /\ fEvt = NoEvent
    /\ fI = 1
    /\ obsForRemoval = <<>>
    /\ dI = 1
    /\ dJ = 1
    /\ sdPc = "idle"
    /\ sdI = 1
    /\ extCalls = 0
    /\ readerPc = [o \in ObsIds |-> readers0]
    /\ recvd = [o \in ObsIds |-> <<>>]
    /\ waitPc = [o \in ObsIds |-> "none"]
    /\ result = [o \in ObsIds |-> <<>>]
    /\ errPc = "busy"
    /\ attempts = 0
    /\ resets = 0
    /\ connects = 0
    /\ readySignals = 0
    /\ fatalOffers = 0
    /\ fatalDelivered = 0
    /\ errDropped = FALSE
    /\ dispatched = <<>>
    /\ now = 0
    /\ lastTimeConnected = 0
    /\ attemptAt = <<>>

\* the names the stream's events carry: the default name, heartbeat, and
\* every name an Observer filters on
StreamNames ==
    EventNames
        \cup UNION {{obsCfg[o].filters[i].event :
                       i \in 1..Len(obsCfg[o].filters)} : o \in ObsIds}

\* NewSSEClient 175: errorCh is made without a buffer
ErrorChCap == 0

\* ------------------------------------------------- Start (312-319) ------
\* go c.fanout(); go c.runReconnectionLoop(ctx); then wait on firstConnCh
Start ==
    /\ Alive
    /\ startPc = "init"
    /\ startPc' = "waitFirstConn"
    /\ fanoutPc' = "check"
    /\ loopPc' = "top"
    /\ UNCHANGED <<serverVars, ctrlDone, cfgVars,
                   obsVars, cliVars, retryCounter,
                   lastTimeConnectedZero, connErr, pending, streamNext,
                   fEvt, fI, obsForRemoval, dI, dJ, sdVars, rdVars, histVars,
                   panicked, errPc>>

\* <-c.firstConnCh
StartReturn ==
    /\ Alive
    /\ startPc = "waitFirstConn"
    /\ firstConnCh > 0
    /\ firstConnCh' = firstConnCh - 1
    /\ startPc' = "returned"
    /\ UNCHANGED <<serverVars, ctrlDone, cfgVars,
                   obsVars, closed, shutdownCtxDone, eventChCloses,
                   errorChCloses, lockHolder, loopVars, fanVars, sdVars,
                   rdVars, histVars, panicked, errPc>>

\* --------------------------------- runReconnectionLoop (373-412) --------
\* lines 378-385: the 60 second window, then the call of connectAndListen.
\* lastTimeConnected starts as the zero time, so the first test is true.
LoopTop ==
    /\ Alive
    /\ loopPc = "top"
    /\ \E over60 \in BOOLEAN :
        /\ lastTimeConnectedZero => over60
        /\ (over60 /\ ~lastTimeConnectedZero) => resets < MaxResets
        /\ retryCounter' = IF over60 THEN 0 ELSE retryCounter
        /\ resets' = IF over60 /\ ~lastTimeConnectedZero
                     THEN resets + 1 ELSE resets
    /\ lastTimeConnectedZero' = FALSE
    /\ attempts' = attempts + 1
    /\ loopPc' = "connect"
    /\ UNCHANGED <<serverVars, ctrlDone, cfgVars,
                   obsVars, cliVars, connErr, pending, streamNext,
                   fanVars, sdVars, rdVars, connects, readySignals,
                   fatalOffers, fatalDelivered, errDropped, dispatched, panicked,
                   startPc, errPc>>

\* runReconnectionLoop 380: time.Since(lastTimeConnected) > 60*time.Second
ResetWindow == 60

\* the clock advances by one of these numbers of seconds
ClockSteps == {30, 31}

\* the clock stops here
MaxNow == 125

\* time passes
TimePasses ==
    /\ Alive
    /\ \E d \in ClockSteps :
        /\ now + d <= MaxNow
        /\ now' = now + d
    /\ UNCHANGED <<serverVars, ctrlDone, obsCfg, dropSlowConsumerMsgs,
                   firstConnEstablished, streamLen, codecVars,
                   lastTimeConnected, attemptAt, obsVars, cliVars, loopVars,
                   fanVars, sdVars, rdVars, histVars, panicked, startPc,
                   errPc>>

\* a window that has expired when exactly 60 seconds have elapsed
LoopTopTimedFromSixty ==
    /\ Alive
    /\ loopPc = "top"
    /\ LET over60 == \/ lastTimeConnectedZero
                      \/ now - lastTimeConnected >= ResetWindow
       IN  /\ retryCounter' = IF over60 THEN 0 ELSE retryCounter
           /\ resets' = IF over60 /\ ~lastTimeConnectedZero
                        THEN resets + 1 ELSE resets
    /\ lastTimeConnectedZero' = FALSE
    /\ lastTimeConnected' = now
    /\ attemptAt' = Append(attemptAt, now)
    /\ attempts' = attempts + 1
    /\ loopPc' = "connect"
    /\ UNCHANGED <<serverVars, ctrlDone, obsCfg, dropSlowConsumerMsgs,
                   firstConnEstablished, streamLen, codecVars, now,
                   obsVars, cliVars, connErr, pending, streamNext,
                   fanVars, sdVars, rdVars, connects, readySignals,
                   fatalOffers, fatalDelivered, errDropped, dispatched,
                   panicked, startPc, errPc>>

\* lines 378-385 with the clock read: lastTimeConnected is the zero time
\* before the first attempt, and then the time the latest attempt started
LoopTopTimed ==
    /\ Alive
    /\ loopPc = "top"
    /\ LET over60 == \/ lastTimeConnectedZero
                      \/ now - lastTimeConnected > ResetWindow
       IN  /\ retryCounter' = IF over60 THEN 0 ELSE retryCounter
           /\ resets' = IF over60 /\ ~lastTimeConnectedZero
                        THEN resets + 1 ELSE resets
    /\ lastTimeConnectedZero' = FALSE
    /\ lastTimeConnected' = now
    /\ attemptAt' = Append(attemptAt, now)
    /\ attempts' = attempts + 1
    /\ loopPc' = "connect"
    /\ UNCHANGED <<serverVars, ctrlDone, obsCfg, dropSlowConsumerMsgs,
                   firstConnEstablished, streamLen, codecVars, now,
                   obsVars, cliVars, connErr, pending, streamNext,
                   fanVars, sdVars, rdVars, connects, readySignals,
                   fatalOffers, fatalDelivered, errDropped, dispatched,
                   panicked, startPc, errPc>>

\* connectAndListen 340-363: the request fails or the response is not SSE
ConnectFail ==
    /\ Alive
    /\ loopPc = "connect"
    /\ connErr' = TRUE
    /\ loopPc' = "errCheck"
    /\ UNCHANGED <<serverVars, ctrlDone, cfgVars,
                   obsVars, cliVars, retryCounter,
                   lastTimeConnectedZero, pending, streamNext, fanVars,
                   sdVars, rdVars, histVars, panicked, startPc, errPc>>

\* connectAndListen 348-363: status 200 and content type text/event-stream
ConnectOK ==
    /\ Alive
    /\ loopPc = "connect"
    /\ ~shutdownCtxDone
    /\ connects < MaxConnects
    /\ connects' = connects + 1
    /\ loopPc' = "notify"
    /\ UNCHANGED <<serverVars, ctrlDone, cfgVars,
                   obsVars, cliVars, retryCounter,
                   lastTimeConnectedZero, connErr, pending, streamNext,
                   fanVars, sdVars, rdVars, attempts, resets, readySignals,
                   fatalOffers, fatalDelivered, errDropped, dispatched, panicked,
                   startPc, errPc>>

\* connectAndListen 348-363: status 200 and content type text/event-stream,
\* as often as MaxConnectsWindow allows
ConnectOKWindow ==
    /\ Alive
    /\ loopPc = "connect"
    /\ ~shutdownCtxDone
    /\ connects < MaxConnectsWindow
    /\ connects' = connects + 1
    /\ loopPc' = "notify"
    /\ UNCHANGED <<serverVars, ctrlDone, cfgVars,
                   obsVars, cliVars, retryCounter,
                   lastTimeConnectedZero, connErr, pending, streamNext,
                   fanVars, sdVars, rdVars, attempts, resets, readySignals,
                   fatalOffers, fatalDelivered, errDropped, dispatched, panicked,
                   startPc, errPc>>

\* connectAndListen 365-368: a blocking send on firstConnCh (capacity 1)
NotifyFirstConn ==
    /\ Alive
    /\ loopPc = "notify"
    /\ IF ~firstConnEstablished
       THEN /\ firstConnCh < FirstConnChCap
            /\ firstConnCh' = firstConnCh + 1
            /\ readySignals' = readySignals + 1
       ELSE UNCHANGED <<firstConnCh, readySignals>>
    /\ loopPc' = "scan"
    /\ UNCHANGED <<serverVars, ctrlDone, cfgVars,
                   obsVars, closed, shutdownCtxDone, eventChCloses,
                   errorChCloses, lockHolder, retryCounter,
                   lastTimeConnectedZero, connErr, pending, streamNext,
                   fanVars, sdVars, rdVars, attempts, resets, connects,
                   fatalOffers, fatalDelivered, errDropped, dispatched, panicked,
                   startPc, errPc>>

\* ReadEvents 17-33: the scanner yields the lines of one record.  With the
\* scope canceled the record is discarded and ReadEvents returns nil.
ScanEvent ==
    /\ Alive
    /\ loopPc = "scan"
    /\ streamNext <= streamLen
    /\ streamNext' = streamNext + 1
    /\ \E n \in StreamNames :
        IF shutdownCtxDone
        THEN /\ connErr' = FALSE
             /\ loopPc' = "errCheck"
             /\ UNCHANGED pending
        ELSE /\ pending' = [name |-> n, data |-> streamNext]
             /\ loopPc' = "send"
             /\ UNCHANGED connErr
    /\ UNCHANGED <<serverVars, ctrlDone, cfgVars,
                   obsVars, cliVars, retryCounter,
                   lastTimeConnectedZero, fanVars, sdVars, rdVars, histVars,
                   panicked, startPc, errPc>>

\* ReadEvents 17, 47-51: the stream ends cleanly, ReadEvents returns nil
ScanEOF ==
    /\ Alive
    /\ loopPc = "scan"
    /\ connErr' = FALSE
    /\ loopPc' = "errCheck"
    /\ UNCHANGED <<serverVars, ctrlDone, cfgVars,
                   obsVars, cliVars, retryCounter,
                   lastTimeConnectedZero, pending, streamNext, fanVars,
                   sdVars, rdVars, histVars, panicked, startPc, errPc>>

\* ReadEvents 47-49: reading the body fails
ScanErr ==
    /\ Alive
    /\ loopPc = "scan"
    /\ connErr' = TRUE
    /\ loopPc' = "errCheck"
    /\ UNCHANGED <<serverVars, ctrlDone, cfgVars,
                   obsVars, cliVars, retryCounter,
                   lastTimeConnectedZero, pending, streamNext, fanVars,
                   sdVars, rdVars, histVars, panicked, startPc, errPc>>

\* ReadEvents 47-49: the body read is aborted because the request's scope
\* (shutdownCtx) was canceled
ScanCanceled ==
    /\ Alive
    /\ loopPc = "scan"
    /\ shutdownCtxDone
    /\ connErr' = TRUE
    /\ loopPc' = "errCheck"
    /\ UNCHANGED <<serverVars, ctrlDone, cfgVars,
                   obsVars, cliVars, retryCounter,
                   lastTimeConnectedZero, pending, streamNext, fanVars,
                   sdVars, rdVars, histVars, panicked, startPc, errPc>>

\* ReadEvents 25-26 with fanout 262: eventCh is unbuffered, the send is a
\* hand-off to the fanout blocked on the receive
SendEvent ==
    /\ Alive
    /\ loopPc = "send"
    /\ eventChCloses = 0
    /\ fanoutPc = "recv"
    /\ fEvt' = pending
    /\ fI' = 1
    /\ obsForRemoval' = <<>>
    /\ fanoutPc' = "loop"
    /\ dispatched' = Append(dispatched, pending)
    /\ pending' = NoEvent
    /\ loopPc' = "scan"
    /\ UNCHANGED <<serverVars, ctrlDone, cfgVars,
                   obsVars, cliVars, retryCounter,
                   lastTimeConnectedZero, connErr, streamNext, dI, dJ,
                   sdVars, rdVars, attempts, resets, connects, readySignals,
                   fatalOffers, fatalDelivered, errDropped, panicked, startPc, errPc>>

\* ReadEvents 27-28: case <-ctx.Done(): return nil
SendCtxDone ==
    /\ Alive
    /\ loopPc = "send"
    /\ shutdownCtxDone
    /\ pending' = NoEvent
    /\ connErr' = FALSE
    /\ loopPc' = "errCheck"
    /\ UNCHANGED <<serverVars, ctrlDone, cfgVars,
                   obsVars, cliVars, retryCounter,
                   lastTimeConnectedZero, streamNext, fanVars, sdVars,
                   rdVars, histVars, panicked, startPc, errPc>>

\* ReadEvents 26: the select picks the send and eventCh has been closed
SendPanic ==
    /\ Alive
    /\ loopPc = "send"
    /\ eventChCloses > 0
    /\ panicked' = "send on closed channel"
    /\ UNCHANGED <<serverVars, ctrlDone, cfgVars,
                   obsVars, cliVars, loopVars, fanVars, sdVars,
                   rdVars, histVars, startPc, errPc>>

\* runReconnectionLoop 385-386: err != nil and !c.closed
ErrCheck ==
    /\ Alive
    /\ loopPc = "errCheck"
    /\ loopPc' = IF connErr /\ ~closed THEN "errPublish" ELSE "after"
    /\ UNCHANGED <<serverVars, ctrlDone, cfgVars,
                   obsVars, cliVars, retryCounter,
                   lastTimeConnectedZero, connErr, pending, streamNext,
                   fanVars, sdVars, rdVars, histVars, panicked, startPc,
                   errPc>>

\* a publish that waits until a consumer receives
ErrPublishBlocking ==
    /\ Alive
    /\ loopPc = "errPublish"
    /\ errorChCloses = 0
    /\ errPc = "waiting"
    /\ errPc' = "busy"
    /\ loopPc' = "after"
    /\ UNCHANGED <<serverVars, ctrlDone, cfgVars,
                   obsVars, cliVars, retryCounter,
                   lastTimeConnectedZero, connErr, pending, streamNext,
                   fanVars, sdVars, rdVars, histVars, panicked, startPc>>

\* runReconnectionLoop 387-391: non-blocking send on the unbuffered errorCh:
\* received only by a consumer already blocked on it, dropped otherwise
ErrPublish ==
    /\ Alive
    /\ loopPc = "errPublish"
    /\ errorChCloses = 0
    /\ errPc' = IF errPc = "waiting" THEN "busy" ELSE errPc
    /\ errDropped' = (errDropped \/ errPc # "waiting")
    /\ loopPc' = "after"
    /\ UNCHANGED <<serverVars, ctrlDone, cfgVars,
                   obsVars, cliVars, retryCounter,
                   lastTimeConnectedZero, connErr, pending, streamNext,
                   fanVars, sdVars, rdVars, attempts, resets, connects,
                   readySignals, fatalOffers, fatalDelivered, dispatched,
                   panicked, startPc>>

\* runReconnectionLoop 388: errorCh was closed after the test of c.closed
ErrPublishPanic ==
    /\ Alive
    /\ loopPc = "errPublish"
    /\ errorChCloses > 0
    /\ panicked' = "send on closed channel"
    /\ UNCHANGED <<serverVars, ctrlDone, cfgVars,
                   obsVars, cliVars, loopVars, fanVars, sdVars,
                   rdVars, histVars, startPc, errPc>>

\* runReconnectionLoop 394-396: the scope is canceled, return
LoopCtxReturn ==
    /\ Alive
    /\ loopPc = "after"
    /\ shutdownCtxDone
    /\ loopPc' = "deferred"
    /\ UNCHANGED <<serverVars, ctrlDone, cfgVars,
                   obsVars, cliVars, retryCounter,
                   lastTimeConnectedZero, connErr, pending, streamNext,
                   fanVars, sdVars, rdVars, histVars, panicked, startPc,
                   errPc>>

\* a cap test that fires one failure early
LoopCapExceededEarly ==
    /\ Alive
    /\ loopPc = "after"
    /\ ~shutdownCtxDone
    /\ retryCounter >= RetryCap
    /\ loopPc' = "fatal"
    /\ UNCHANGED <<serverVars, ctrlDone, cfgVars, obsVars, cliVars,
                   retryCounter, lastTimeConnectedZero, connErr, pending,
                   streamNext, fanVars, sdVars, rdVars, histVars, panicked,
                   startPc, errPc>>

\* runReconnectionLoop 398: retryCounter > 3
LoopCapExceeded ==
    /\ Alive
    /\ loopPc = "after"
    /\ ~shutdownCtxDone
    /\ retryCounter > RetryCap
    /\ loopPc' = "fatal"
    /\ UNCHANGED <<serverVars, ctrlDone, cfgVars,
                   obsVars, cliVars, retryCounter,
                   lastTimeConnectedZero, connErr, pending, streamNext,
                   fanVars, sdVars, rdVars, histVars, panicked, startPc,
                   errPc>>

\* runReconnectionLoop 408-410: sleep 2 seconds, retryCounter++
LoopBackoff ==
    /\ Alive
    /\ loopPc = "after"
    /\ ~shutdownCtxDone
    /\ ~(retryCounter > RetryCap)
    /\ retryCounter' = retryCounter + 1
    /\ loopPc' = "top"
    /\ UNCHANGED <<serverVars, ctrlDone, cfgVars,
                   obsVars, cliVars, lastTimeConnectedZero, connErr,
                   pending, streamNext, fanVars, sdVars, rdVars, histVars,
                   panicked, startPc, errPc>>

\* a fatal error that is delivered whether or not a consumer is waiting
FatalPublishBuffered ==
    /\ Alive
    /\ loopPc = "fatal"
    /\ errorChCloses = 0
    /\ fatalOffers' = fatalOffers + 1
    /\ fatalDelivered' = fatalDelivered + 1
    /\ errPc' = IF errPc = "waiting" THEN "busy" ELSE errPc
    /\ loopPc' = "shutdown"
    /\ UNCHANGED <<serverVars, ctrlDone, cfgVars, obsVars, cliVars,
                   retryCounter, lastTimeConnectedZero, connErr, pending,
                   streamNext, fanVars, sdVars, rdVars, attempts, resets,
                   connects, readySignals, errDropped, dispatched, panicked,
                   startPc>>

\* runReconnectionLoop 399-403: non-blocking send of
\* ErrToManyFailedReconnects
FatalPublish ==
    /\ Alive
    /\ loopPc = "fatal"
    /\ errorChCloses = 0
    /\ fatalOffers' = fatalOffers + 1
    /\ fatalDelivered' = IF errPc = "waiting" THEN fatalDelivered + 1
                         ELSE fatalDelivered
    /\ errPc' = IF errPc = "waiting" THEN "busy" ELSE errPc
    /\ loopPc' = "shutdown"
    /\ UNCHANGED <<serverVars, ctrlDone, cfgVars,
                   obsVars, cliVars, retryCounter,
                   lastTimeConnectedZero, connErr, pending, streamNext,
                   fanVars, sdVars, rdVars, attempts, resets, connects,
                   readySignals, errDropped, dispatched, panicked, startPc>>

\* runReconnectionLoop 400: errorCh has already been closed
FatalPublishPanic ==
    /\ Alive
    /\ loopPc = "fatal"
    /\ errorChCloses > 0
    /\ fatalOffers' = fatalOffers + 1
    /\ panicked' = "send on closed channel"
    /\ UNCHANGED <<serverVars, ctrlDone, cfgVars,
                   obsVars, cliVars, loopVars, fanVars, sdVars,
                   rdVars, attempts, resets, connects, readySignals,
                   fatalDelivered, errDropped, dispatched, startPc, errPc>>

\* -------------------------------------------- Client.Shutdown (322-337) --
\* close(ch): a second close panics
CloseObserverCh(o) ==
    /\ EventChCloses' = [EventChCloses EXCEPT ![o] = @ + 1]
    /\ panicked' = IF EventChCloses[o] > 0 THEN "close of closed channel"
                   ELSE panicked

\* a Shutdown that runs its body whatever c.closed says
ShutdownEnterUnguarded(caller) ==
    /\ lockHolder = "none"
    /\ closed' = TRUE
    /\ lockHolder' = caller
    /\ sdPc' = "cancel"

\* lines 324-327: Lock, test c.closed; on a closed Client the call only
\* unlocks again, otherwise c.closed = true and the body runs under the lock
ShutdownEnter(caller) ==
    /\ lockHolder = "none"
    /\ IF closed
       THEN UNCHANGED <<closed, lockHolder, sdPc>>
       ELSE /\ closed' = TRUE
            /\ lockHolder' = caller
            /\ sdPc' = "cancel"

\* Shutdown called by application code
AppShutdown ==
    /\ Alive
    /\ extCalls < MaxExtShutdowns
    /\ ShutdownEnter("app")
    /\ extCalls' = extCalls + 1
    /\ UNCHANGED <<serverVars, ctrlDone, cfgVars,
                   obsVars, firstConnCh, shutdownCtxDone,
                   eventChCloses, errorChCloses, loopVars, fanVars, sdI,
                   rdVars, histVars, panicked, startPc, errPc>>

\* runReconnectionLoop 404: c.Shutdown() after the fatal error
LoopShutdown ==
    /\ Alive
    /\ loopPc = "shutdown"
    /\ ShutdownEnter("loop")
    /\ loopPc' = IF closed THEN "deferred" ELSE "inShutdown"
    /\ UNCHANGED <<serverVars, ctrlDone, cfgVars,
                   obsVars, firstConnCh, shutdownCtxDone,
                   eventChCloses, errorChCloses, retryCounter,
                   lastTimeConnectedZero, connErr, pending, streamNext,
                   fanVars, sdI, extCalls, rdVars, histVars, panicked,
                   startPc, errPc>>

\* runReconnectionLoop 374: defer c.Shutdown()
LoopDeferredShutdown ==
    /\ Alive
    /\ loopPc = "deferred"
    /\ ShutdownEnter("loop")
    /\ loopPc' = IF closed THEN "done" ELSE "inDeferred"
    /\ UNCHANGED <<serverVars, ctrlDone, cfgVars,
                   obsVars, firstConnCh, shutdownCtxDone,
                   eventChCloses, errorChCloses, retryCounter,
                   lastTimeConnectedZero, connErr, pending, streamNext,
                   fanVars, sdI, extCalls, rdVars, histVars, panicked,
                   startPc, errPc>>

\* line 328: c.shutdownFn()
ShutdownCancel ==
    /\ Alive
    /\ sdPc = "cancel"
    /\ shutdownCtxDone' = TRUE
    /\ sdPc' = "closeEvent"
    /\ UNCHANGED <<serverVars, ctrlDone, cfgVars,
                   obsVars, closed, firstConnCh, eventChCloses,
                   errorChCloses, lockHolder, loopVars, fanVars, sdI,
                   extCalls, rdVars, histVars, panicked, startPc, errPc>>

\* line 329: close(c.eventCh)
ShutdownCloseEventCh ==
    /\ Alive
    /\ sdPc = "closeEvent"
    /\ eventChCloses' = eventChCloses + 1
    /\ panicked' = IF eventChCloses > 0 THEN "close of closed channel"
                   ELSE panicked
    /\ sdPc' = "closeError"
    /\ UNCHANGED <<serverVars, ctrlDone, cfgVars,
                   obsVars, closed, firstConnCh, shutdownCtxDone,
                   errorChCloses, lockHolder, loopVars, fanVars, sdI,
                   extCalls, rdVars, histVars, startPc, errPc>>

\* line 330: close(c.errorCh)
ShutdownCloseErrorCh ==
    /\ Alive
    /\ sdPc = "closeError"
    /\ errorChCloses' = errorChCloses + 1
    /\ panicked' = IF errorChCloses > 0 THEN "close of closed channel"
                   ELSE panicked
    /\ sdPc' = "closeObs"
    /\ sdI' = 1
    /\ UNCHANGED <<serverVars, ctrlDone, cfgVars,
                   obsVars, closed, firstConnCh, shutdownCtxDone,
                   eventChCloses, lockHolder, loopVars, fanVars, extCalls,
                   rdVars, histVars, startPc, errPc>>

\* lines 331-335: one iteration; c.observers is read without any
\* synchronisation with the fanout that rewrites it
ShutdownCloseObserver ==
    /\ Alive
    /\ sdPc = "closeObs"
    /\ sdI <= obsLen
    /\ IF observers[sdI] # NIL
       THEN CloseObserverCh(observers[sdI])
       ELSE UNCHANGED <<EventChCloses, panicked>>
    /\ sdI' = sdI + 1
    /\ UNCHANGED <<serverVars, ctrlDone, cfgVars,
                   emittedCount, EventCh, observers, obsLen, cliVars,
                   loopVars, fanVars, sdPc, extCalls, rdVars, histVars,
                   startPc, errPc>>

\* line 325: the deferred Unlock; the caller goes on
ShutdownUnlock ==
    /\ Alive
    /\ sdPc = "closeObs"
    /\ sdI > obsLen
    /\ sdPc' = "idle"
    /\ lockHolder' = "none"
    /\ loopPc' = IF lockHolder = "loop"
                 THEN (IF loopPc = "inShutdown" THEN "deferred" ELSE "done")
                 ELSE loopPc
    /\ UNCHANGED <<serverVars, ctrlDone, cfgVars,
                   obsVars, closed, firstConnCh, shutdownCtxDone,
                   eventChCloses, errorChCloses, retryCounter,
                   lastTimeConnectedZero, connErr, pending, streamNext,
                   fanVars, sdI, extCalls, rdVars, histVars, panicked,
                   startPc, errPc>>

\* ----------------------------------------------- fanout (257-309) -------
\* a limit test that lets one event too many through
isObserverDoneOffByOne(o, count) ==
    IF o.closeOnFirst THEN TRUE
    ELSE IF o.limit > 0 THEN count + 1 > o.limit
    ELSE FALSE

\* a completion test that ignores First()
isObserverDoneIgnoringFirst(o, count) ==
    IF o.limit > 0 THEN count + 1 >= o.limit
    ELSE FALSE

\* isObserverDone 205-218: the result
isObserverDone(o, count) ==
    IF o.closeOnFirst THEN TRUE
    ELSE IF o.limit > 0 THEN count + 1 >= o.limit
    ELSE FALSE

\* a counter that never advances
emittedCountStuck(o, count) == count

\* isObserverDone 211-212: emittedCount after the call
emittedCountAfter(o, count) ==
    IF ~o.closeOnFirst /\ o.limit > 0 THEN count + 1 ELSE count

\* the send `obs.EventCh <- evt` can proceed: room in the buffer, or a
\* reader blocked on the empty channel
CanSend(o) ==
    /\ EventChCloses[o] = 0
    /\ \/ Len(EventCh[o]) < obsCfg[o].buffer
       \/ readerPc[o] = "reading" /\ EventCh[o] = <<>>

\* the Observer the pass is at, when it is to be offered the event
Offered(o) ==
    /\ fanoutPc = "loop"
    /\ fI <= obsLen
    /\ o = observers[fI]
    /\ o # NIL
    /\ hasSatisfiedFilters(obsCfg[o], fEvt)

\* lines 258-260
FanoutCheck ==
    /\ Alive
    /\ fanoutPc = "check"
    /\ fanoutPc' = IF obsLen = 0 THEN "exited" ELSE "recv"
    /\ UNCHANGED <<serverVars, ctrlDone, cfgVars,
                   obsVars, cliVars, loopVars, fEvt, fI,
                   obsForRemoval, dI, dJ, sdVars, rdVars, histVars, panicked,
                   startPc, errPc>>

\* lines 262-265: eventCh is closed
FanoutRecvClosed ==
    /\ Alive
    /\ fanoutPc = "recv"
    /\ eventChCloses > 0
    /\ fanoutPc' = "exited"
    /\ UNCHANGED <<serverVars, ctrlDone, cfgVars,
                   obsVars, cliVars, loopVars, fEvt, fI,
                   obsForRemoval, dI, dJ, sdVars, rdVars, histVars, panicked,
                   startPc, errPc>>

\* a dispatcher that may pass over an Observer whose filters pass
FanoutSkipAny ==
    /\ Alive
    /\ fanoutPc = "loop"
    /\ fI <= obsLen
    /\ fI' = fI + 1
    /\ UNCHANGED <<serverVars, ctrlDone, cfgVars,
                   obsVars, cliVars, loopVars, fanoutPc, fEvt,
                   obsForRemoval, dI, dJ, sdVars, rdVars, histVars, panicked,
                   startPc, errPc>>

\* lines 270-274: a nil entry or a failing filter
FanoutSkip ==
    /\ Alive
    /\ fanoutPc = "loop"
    /\ fI <= obsLen
    /\ \/ observers[fI] = NIL
       \/ ~hasSatisfiedFilters(obsCfg[observers[fI]], fEvt)
    /\ fI' = fI + 1
    /\ UNCHANGED <<serverVars, ctrlDone, cfgVars,
                   obsVars, cliVars, loopVars, fanoutPc, fEvt,
                   obsForRemoval, dI, dJ, sdVars, rdVars, histVars, panicked,
                   startPc, errPc>>

\* emitEventsWait 229-230 / emitEventsOrDrop 244-245, then fanout 291-294
FanoutDeliver ==
    /\ Alive
    /\ \E o \in ObsIds :
        /\ Offered(o)
        /\ CanSend(o)
        /\ IF readerPc[o] = "reading" /\ EventCh[o] = <<>>
           THEN /\ recvd' = [recvd EXCEPT ![o] = Append(@, fEvt)]
                /\ UNCHANGED EventCh
           ELSE /\ EventCh' = [EventCh EXCEPT ![o] = Append(@, fEvt)]
                /\ UNCHANGED recvd
        /\ emittedCount' = [emittedCount EXCEPT
                              ![o] = emittedCountAfter(obsCfg[o], @)]
        /\ obsForRemoval' = IF isObserverDone(obsCfg[o], emittedCount[o])
                            THEN Append(obsForRemoval, o)
                            ELSE obsForRemoval
    /\ fI' = fI + 1
    /\ UNCHANGED <<serverVars, ctrlDone, cfgVars,
                   EventChCloses, observers, obsLen, cliVars,
                   loopVars, fanoutPc, fEvt, dI, dJ, sdVars, readerPc,
                   waitPc, result, histVars, panicked, startPc, errPc>>

\* a drop that counts toward the Observer's limit
FanoutDropCounted ==
    /\ Alive
    /\ dropSlowConsumerMsgs
    /\ \E o \in ObsIds :
        /\ Offered(o)
        /\ ~CanSend(o)
        /\ EventChCloses[o] = 0
        /\ emittedCount' = [emittedCount EXCEPT
                              ![o] = emittedCountAfter(obsCfg[o], @)]
    /\ ~shutdownCtxDone
    /\ fI' = fI + 1
    /\ UNCHANGED <<serverVars, ctrlDone, cfgVars,
                   EventCh, EventChCloses, observers, obsLen, cliVars,
                   loopVars, fanoutPc, fEvt, obsForRemoval, dI, dJ, sdVars,
                   rdVars, histVars, panicked, startPc, errPc>>

\* emitEventsOrDrop 250-251: no case is ready, the event is dropped
FanoutDrop ==
    /\ Alive
    /\ dropSlowConsumerMsgs
    /\ \E o \in ObsIds :
        /\ Offered(o)
        /\ ~CanSend(o)
        /\ EventChCloses[o] = 0
    /\ ~shutdownCtxDone
    /\ fI' = fI + 1
    /\ UNCHANGED <<serverVars, ctrlDone, cfgVars,
                   obsVars, cliVars, loopVars, fanoutPc, fEvt,
                   obsForRemoval, dI, dJ, sdVars, rdVars, histVars, panicked,
                   startPc, errPc>>

\* emitEventsWait 231-233 / emitEventsOrDrop 247-249, then fanout 288-290
FanoutStop ==
    /\ Alive
    /\ \E o \in ObsIds : Offered(o)
    /\ shutdownCtxDone
    /\ fanoutPc' = "exited"
    /\ UNCHANGED <<serverVars, ctrlDone, cfgVars,
                   obsVars, cliVars, loopVars, fEvt, fI,
                   obsForRemoval, dI, dJ, sdVars, rdVars, histVars, panicked,
                   startPc, errPc>>

\* emitEventsWait 229 / emitEventsOrDrop 244: the select picks the send and
\* the Observer's channel has been closed
FanoutSendPanic ==
    /\ Alive
    /\ \E o \in ObsIds :
        /\ Offered(o)
        /\ EventChCloses[o] > 0
    /\ panicked' = "send on closed channel"
    /\ UNCHANGED <<serverVars, ctrlDone, cfgVars,
                   obsVars, cliVars, loopVars, fanVars, sdVars,
                   rdVars, histVars, startPc, errPc>>

\* a dispatcher that never removes the Observers it collected
FanoutEndPassNoRemoval ==
    /\ Alive
    /\ fanoutPc = "loop"
    /\ fI > obsLen
    /\ fanoutPc' = "recv"
    /\ dJ' = 1
    /\ UNCHANGED <<serverVars, ctrlDone, cfgVars,
                   obsVars, cliVars, loopVars, fEvt, fI,
                   obsForRemoval, dI, sdVars, rdVars, histVars, panicked,
                   startPc, errPc>>

\* lines 270, 298: the pass is over
FanoutEndPass ==
    /\ Alive
    /\ fanoutPc = "loop"
    /\ fI > obsLen
    /\ fanoutPc' = IF obsForRemoval = <<>> THEN "recv" ELSE "find"
    /\ dJ' = 1
    /\ UNCHANGED <<serverVars, ctrlDone, cfgVars,
                   obsVars, cliVars, loopVars, fEvt, fI,
                   obsForRemoval, dI, sdVars, rdVars, histVars, panicked,
                   startPc, errPc>>

\* lines 299-305, slices.DeleteFunc: IndexFunc looks for the first element
\* to delete; the predicate closes the channel of each element it deletes
DeleteFind ==
    /\ Alive
    /\ fanoutPc = "find"
    /\ dJ <= obsLen
    /\ IF observers[dJ] \in RangeOf(obsForRemoval)
       THEN /\ CloseObserverCh(observers[dJ])
            /\ dI' = dJ
            /\ fanoutPc' = "shift"
       ELSE UNCHANGED <<EventChCloses, panicked, dI, fanoutPc>>
    /\ dJ' = dJ + 1
    /\ UNCHANGED <<serverVars, ctrlDone, cfgVars,
                   emittedCount, EventCh, observers, obsLen, cliVars,
                   loopVars, fEvt, fI, obsForRemoval, sdVars, rdVars,
                   histVars, startPc, errPc>>

\* slices.DeleteFunc: the kept elements are moved down in place
DeleteShift ==
    /\ Alive
    /\ fanoutPc = "shift"
    /\ dJ <= obsLen
    /\ IF observers[dJ] \in RangeOf(obsForRemoval)
       THEN /\ CloseObserverCh(observers[dJ])
            /\ UNCHANGED <<observers, dI>>
       ELSE /\ observers' = [observers EXCEPT ![dI] = observers[dJ]]
            /\ dI' = dI + 1
            /\ UNCHANGED <<EventChCloses, panicked>>
    /\ dJ' = dJ + 1
    /\ UNCHANGED <<serverVars, ctrlDone, cfgVars,
                   emittedCount, EventCh, obsLen, cliVars, loopVars,
                   fanoutPc, fEvt, fI, obsForRemoval, sdVars, rdVars,
                   histVars, startPc, errPc>>

\* slices.DeleteFunc: clear(s[i:])
DeleteClear ==
    /\ Alive
    /\ fanoutPc = "shift"
    /\ dJ > obsLen
    /\ observers' = [k \in DOMAIN observers |->
                        IF k >= dI /\ k <= obsLen THEN NIL ELSE observers[k]]
    /\ fanoutPc' = "assign"
    /\ UNCHANGED <<serverVars, ctrlDone, cfgVars,
                   emittedCount, EventCh, EventChCloses, obsLen,
                   cliVars, loopVars, fEvt, fI, obsForRemoval, dI, dJ, sdVars,
                   rdVars, histVars, panicked, startPc, errPc>>

\* lines 299, 306: c.observers = s[:i]; obsForRemoval = nil
DeleteAssign ==
    /\ Alive
    /\ fanoutPc = "assign"
    /\ obsLen' = dI - 1
    /\ obsForRemoval' = <<>>
    /\ fanoutPc' = "recv"
    /\ UNCHANGED <<serverVars, ctrlDone, cfgVars,
                   emittedCount, EventCh, EventChCloses, observers,
                   cliVars, loopVars, fEvt, fI, dI, dJ, sdVars, rdVars,
                   histVars, panicked, startPc, errPc>>

\* ------------------------------------ Observer.WaitForAll (29-37) -------
\* the application calls WaitForAll on the Observer
WaitForAll(o) ==
    /\ Alive
    /\ readerPc[o] = "idle"
    /\ readerPc' = [readerPc EXCEPT ![o] = "reading"]
    /\ UNCHANGED <<serverVars, ctrlDone, cfgVars,
                   obsVars, cliVars, loopVars, fanVars, sdVars,
                   recvd, waitPc, result, histVars, panicked, startPc,
                   errPc>>

\* line 32-33: an event is taken from the buffer
ReaderRecv(o) ==
    /\ Alive
    /\ readerPc[o] = "reading"
    /\ EventCh[o] # <<>>
    /\ recvd' = [recvd EXCEPT ![o] = Append(@, Head(EventCh[o]))]
    /\ EventCh' = [EventCh EXCEPT ![o] = Tail(@)]
    /\ UNCHANGED <<serverVars, ctrlDone, cfgVars,
                   emittedCount, EventChCloses, observers, obsLen,
                   cliVars, loopVars, fanVars, sdVars, readerPc, waitPc,
                   result, histVars, panicked, startPc, errPc>>

\* line 32, 36: the channel is closed and drained, WaitForAll returns
ReaderDone(o) ==
    /\ Alive
    /\ readerPc[o] = "reading"
    /\ EventCh[o] = <<>>
    /\ EventChCloses[o] > 0
    /\ readerPc' = [readerPc EXCEPT ![o] = "done"]
    /\ UNCHANGED <<serverVars, ctrlDone, cfgVars,
                   obsVars, cliVars, loopVars, fanVars, sdVars,
                   recvd, waitPc, result, histVars, panicked, startPc,
                   errPc>>

\* ---------------------------- Observer.WaitForAllOrTimeout (40-61) ------
\* lines 41-55: the application calls WaitForAllOrTimeout; the drain
\* goroutine starts ranging over the queue, the timer is armed and the
\* caller waits in the select
WaitForAllOrTimeout(o) ==
    /\ Alive
    /\ readerPc[o] = "idle"
    /\ waitPc[o] = "none"
    /\ readerPc' = [readerPc EXCEPT ![o] = "reading"]
    /\ waitPc' = [waitPc EXCEPT ![o] = "select"]
    /\ UNCHANGED <<serverVars, ctrlDone, cfgVars,
                   obsVars, cliVars, loopVars, fanVars, sdVars,
                   recvd, result, histVars, panicked, startPc, errPc>>

\* lines 48-49 and 56-57: the drain goroutine, its range over, hands the
\* events to the caller waiting in the select, closes eventsCh and ends;
\* the call returns the events and no error
WaitHandOver(o) ==
    /\ Alive
    /\ readerPc[o] = "done"
    /\ waitPc[o] = "select"
    /\ readerPc' = [readerPc EXCEPT ![o] = "exited"]
    /\ waitPc' = [waitPc EXCEPT ![o] = "events"]
    /\ result' = [result EXCEPT ![o] = recvd[o]]
    /\ UNCHANGED <<serverVars, ctrlDone, cfgVars,
                   obsVars, cliVars, loopVars, fanVars, sdVars,
                   recvd, histVars, panicked, startPc, errPc>>

\* a call that returns what was received so far when the timer fires
TimeoutResultPartial(events) == events

\* line 59: return nil, ctx.Err()
TimeoutResult(events) == <<>>

\* lines 58-59: the timer fires while the caller waits in the select; the
\* call returns the timeout error, the drain goroutine goes on
WaitTimeout(o) ==
    /\ Alive
    /\ waitPc[o] = "select"
    /\ waitPc' = [waitPc EXCEPT ![o] = "timeout"]
    /\ result' = [result EXCEPT ![o] = TimeoutResult(recvd[o])]
    /\ UNCHANGED <<serverVars, ctrlDone, cfgVars,
                   obsVars, cliVars, loopVars, fanVars, sdVars,
                   readerPc, recvd, histVars, panicked, startPc, errPc>>

\* ------------------------------------------- OnError (193-203) ----------
\* the consumer comes (back) to the receive `<-c.errorCh`
ErrConsumerWait ==
    /\ Alive
    /\ errPc = "busy"
    /\ errPc' = "waiting"
    /\ UNCHANGED <<serverVars, ctrlDone, cfgVars,
                   obsVars, cliVars, loopVars, fanVars, sdVars,
                   rdVars, histVars, panicked, startPc>>

\* lines 196-199: errorCh is closed, the consumer returns
ErrConsumerClosed ==
    /\ Alive
    /\ errPc = "waiting"
    /\ errorChCloses > 0
    /\ errPc' = "done"
    /\ UNCHANGED <<serverVars, ctrlDone, cfgVars,
                   obsVars, cliVars, loopVars, fanVars, sdVars,
                   rdVars, histVars, panicked, startPc>>

\* ========================================================= the codec ====
\* Text is a sequence of characters; field values are drawn from strings of
\* at most MaxStrLen characters, line breaks included.
MaxStrLen == 2

LF == "\n"

CR == "\r"

ValueChars == {"a", LF, CR}

Strings == UNION {[1..n -> ValueChars] : n \in 0..MaxStrLen}

\* an optional field, *string or *int: nil, or a pointer to a value
NilField == [set |-> FALSE, val |-> <<>>]

PtrTo(v) == [set |-> TRUE, val |-> v]

OptionalStrings == {NilField} \cup {PtrTo(v) : v \in Strings}

\* Retry in its decimal form
RetryValues == {NilField, PtrTo(<<"7">>)}

\* Event{} (part_009:8-18)
ZeroEvent ==
    [Id |-> NilField, Event |-> NilField, Data |-> <<>>, Retry |-> NilField]

CodecEvents ==
    [Id : OptionalStrings, Event : OptionalStrings, Data : Strings,
     Retry : RetryValues]

PrefixId == <<"i", "d", ":", " ">>

PrefixEvent == <<"e", "v", "e", "n", "t", ":", " ">>

PrefixData == <<"d", "a", "t", "a", ":", " ">>

PrefixRetry == <<"r", "e", "t", "r", "y", ":", " ">>

\* Event.ToResponseString (part_009:42-69)
ToResponseString(e) ==
    (IF e.Event.set THEN PrefixEvent \o e.Event.val \o <<LF>> ELSE <<>>)
    \o PrefixData \o e.Data \o <<LF>>
    \o (IF e.Id.set THEN PrefixId \o e.Id.val \o <<LF>> ELSE <<>>)
    \o (IF e.Retry.set THEN PrefixRetry \o e.Retry.val \o <<LF>> ELSE <<>>)
    \o <<LF, LF>>

\* bufio.ScanLines drops one trailing carriage return of a line
dropCR(line) ==
    IF line # <<>> /\ line[Len(line)] = CR
    THEN SubSeq(line, 1, Len(line) - 1)
    ELSE line

\* the position of the first line feed of the text, NIL if it has none
IndexLF(text) ==
    IF \E i \in 1..Len(text) : text[i] = LF
    THEN CHOOSE i \in 1..Len(text) :
            text[i] = LF /\ \A j \in 1..(i - 1) : text[j] # LF
    ELSE NIL

\* bufio.Scanner with ScanLines (utils-io.go:14, 17, 22): the lines of the
\* text, without their terminators; a last unterminated line counts when
\* it is not empty
RECURSIVE ScanLines(_)
ScanLines(text) ==
    IF text = <<>> THEN <<>>
    ELSE IF IndexLF(text) = NIL THEN <<dropCR(text)>>
    ELSE <<dropCR(SubSeq(text, 1, IndexLF(text) - 1))>>
         \o ScanLines(SubSeq(text, IndexLF(text) + 1, Len(text)))

\* strings.HasPrefix, strings.TrimPrefix
HasPrefix(line, prefix) ==
    Len(line) >= Len(prefix) /\ SubSeq(line, 1, Len(prefix)) = prefix

TrimPrefix(line, prefix) ==
    IF HasPrefix(line, prefix)
    THEN SubSeq(line, Len(prefix) + 1, Len(line))
    ELSE line

\* ReadEvents 35-43: a field line updates the accumulator
\* a decoder that puts a line feed between the values of the data lines
readFieldJoinedByLF(event, line) ==
    IF HasPrefix(line, PrefixId)
    THEN [event EXCEPT !.Id = PtrTo(TrimPrefix(line, PrefixId))]
    ELSE IF HasPrefix(line, PrefixEvent)
    THEN [event EXCEPT !.Event = PtrTo(TrimPrefix(line, PrefixEvent))]
    ELSE IF HasPrefix(line, PrefixData)
    THEN [event EXCEPT !.Data = IF @ = <<>>
                                THEN TrimPrefix(line, PrefixData)
                                ELSE @ \o <<LF>> \o
                                     TrimPrefix(line, PrefixData)]
    ELSE event

\* ReadEvents 35-43: a field line sets the id or the name of the
\* accumulator, or appends to its data; any other line is ignored
readField(event, line) ==
    IF HasPrefix(line, PrefixId)
    THEN [event EXCEPT !.Id = PtrTo(TrimPrefix(line, PrefixId))]
    ELSE IF HasPrefix(line, PrefixEvent)
    THEN [event EXCEPT !.Event = PtrTo(TrimPrefix(line, PrefixEvent))]
    ELSE IF HasPrefix(line, PrefixData)
    THEN [event EXCEPT !.Data = @ \o TrimPrefix(line, PrefixData)]
    ELSE event

\* no codec run in progress
CodecIdle ==
    /\ codecIn = ZeroEvent
    /\ decLines = <<>>
    /\ decEvent = ZeroEvent
    /\ decOut = <<>>
    /\ decRead = <<>>
    /\ codecPc = "idle"

\* the server writes the record of the Event: the client's scanner is to
\* read what ToResponseString returned
EncodeEvent ==
    /\ Alive
    /\ codecPc = "encode"
    /\ decLines' = ScanLines(ToResponseString(codecIn))
    /\ codecPc' = "scan"
    /\ UNCHANGED <<serverVars, ctrlDone, obsCfg, dropSlowConsumerMsgs,
                   firstConnEstablished, streamLen, clockVars,
                   codecIn, decEvent,
                   decOut, decRead, obsVars, cliVars, loopVars, fanVars,
                   sdVars, rdVars, histVars, panicked, startPc, errPc>>

\* ReadEvents 17, 47-51: scanner.Scan() returns false at the end of the
\* stream, ReadEvents returns
ReadEventsEOF ==
    /\ Alive
    /\ codecPc = "scan"
    /\ decLines = <<>>
    /\ codecPc' = "eof"
    /\ UNCHANGED <<serverVars, ctrlDone, obsCfg, dropSlowConsumerMsgs,
                   firstConnEstablished, streamLen, clockVars,
                   codecIn, decLines,
                   decEvent, decOut, decRead, obsVars, cliVars, loopVars,
                   fanVars, sdVars, rdVars, histVars, panicked, startPc, errPc>>

\* a decoder that resets only the data at a blank line
ReadEventsLineKeepingFields ==
    /\ Alive
    /\ codecPc = "scan"
    /\ decLines # <<>>
    /\ decLines' = Tail(decLines)
    /\ decRead' = Append(decRead, Head(decLines))
    /\ IF Head(decLines) = <<>>
       THEN /\ decOut' = IF decEvent.Data # <<>>
                         THEN Append(decOut, decEvent)
                         ELSE decOut
            /\ decEvent' = [decEvent EXCEPT !.Data = <<>>]
       ELSE /\ decEvent' = readField(decEvent, Head(decLines))
            /\ UNCHANGED decOut
    /\ UNCHANGED <<serverVars, ctrlDone, obsCfg, dropSlowConsumerMsgs,
                   firstConnEstablished, streamLen, clockVars,
                   codecIn, codecPc,
                   obsVars, cliVars, loopVars, fanVars, sdVars, rdVars,
                   histVars, panicked, startPc, errPc>>

\* ReadEvents 17-44, one turn of the scan loop on the next line, with the
\* scope not canceled and `out` received from: at a blank line the
\* accumulated Event is sent when it has data and the accumulator is
\* reset; another line updates the accumulator
ReadEventsLine ==
    /\ Alive
    /\ codecPc = "scan"
    /\ decLines # <<>>
    /\ decLines' = Tail(decLines)
    /\ decRead' = Append(decRead, Head(decLines))
    /\ IF Head(decLines) = <<>>
       THEN /\ decOut' = IF decEvent.Data # <<>>
                         THEN Append(decOut, decEvent)
                         ELSE decOut
            /\ decEvent' = ZeroEvent
       ELSE /\ decEvent' = readField(decEvent, Head(decLines))
            /\ UNCHANGED decOut
    /\ UNCHANGED <<serverVars, ctrlDone, obsCfg, dropSlowConsumerMsgs,
                   firstConnEstablished, streamLen, clockVars,
                   codecIn, codecPc,
                   obsVars, cliVars, loopVars, fanVars, sdVars, rdVars,
                   histVars, panicked, startPc, errPc>>

\* =================================================== the server side ====
\* the requests sent to POST /emit: the Content-Type is application/json or
\* not, the body can or cannot be read, is or is not well-formed JSON, and
\* carries empty or non-empty data
Submissions ==
    [json : BOOLEAN, readErr : BOOLEAN, wellFormed : BOOLEAN,
     data : {"", "x"}]

NoSubmission ==
    [json |-> FALSE, readErr |-> FALSE, wellFormed |-> FALSE, data |-> "-"]

\* respondError: w.WriteHeader(400); no WriteHeader means 200
StatusBadRequest == 400

StatusOK == 200

StatusNone == 0

newHeartbeatEvent == [name |-> eventNameHeartbeat, data |-> 0]

\* NewController: no connection yet, nothing emitted
InitServer(strategies, sizes) ==
    /\ emitStrategy \in strategies
    /\ bufferSize \in sizes
    /\ ctrlDone = FALSE
    /\ subscribers = {}
    /\ mwPc = [c \in ConnIds |-> "idle"]
    /\ data = [c \in ConnIds |-> <<>>]
    /\ dataCloses = [c \in ConnIds |-> 0]
    /\ handlerCanceled = [c \in ConnIds |-> FALSE]
    /\ tickerStopped = [c \in ConnIds |-> FALSE]
    /\ ticks = 0
    /\ clientGone = [c \in ConnIds |-> FALSE]
    /\ written = [c \in ConnIds |-> <<>>]
    /\ hPc = [c \in ConnIds |-> "idle"]
    /\ subscribeCh = [c \in ConnIds |-> <<>>]
    /\ subscribeChCloses = [c \in ConnIds |-> 0]
    /\ held = [c \in ConnIds |-> NoEvent]
    /\ emitPc = "idle"
    /\ emitNext = 1
    /\ emitVisited = {}
    /\ emitSnap = {}
    /\ skipped = [c \in ConnIds |-> {}]
    /\ lastSub = NoSubmission
    /\ respStatus = StatusNone
    /\ emitData = <<>>

\* HttpController.Shutdown (observer.go:113-116): c.cancel()
CtrlShutdown ==
    /\ Alive
    /\ ctrlDone' = TRUE
    /\ UNCHANGED <<clientVars, serverVars>>

\* the peer closes the connection: req.Context() is canceled
ClientDisconnect(c) ==
    /\ Alive
    /\ mwPc[c] \notin {"idle", "done"}
    /\ ~clientGone[c]
    /\ clientGone' = [clientGone EXCEPT ![c] = TRUE]
    /\ UNCHANGED <<clientVars, ctrlDone, ctrlVars, mwPc, data, dataCloses,
                   handlerCanceled, tickerStopped, ticks, written, hVars,
                   emitVars, srvHistVars>>

\* writeAndFlush (156-168) through SendResponse (174-182): the record is
\* written and flushed, or the write fails, which is logged only.  A write
\* can fail once the peer is gone.
WriteOutcomes(c) == IF clientGone[c] THEN {TRUE, FALSE} ELSE {TRUE}

writeAndFlush(c, rec, ok) ==
    written' = [written EXCEPT ![c] = IF ok THEN Append(@, rec) ELSE @]

\* a Middleware that starts the handler without the on-connect heartbeat
MwAcceptWithoutHeartbeat(c) ==
    /\ Alive
    /\ mwPc[c] = "idle"
    /\ \A d \in ConnIds : d < c => mwPc[d] # "idle"
    /\ mwPc' = [mwPc EXCEPT ![c] = "loop"]
    /\ hPc' = [hPc EXCEPT ![c] = "store"]
    /\ UNCHANGED <<clientVars, ctrlDone, ctrlVars, data, dataCloses,
                   handlerCanceled, tickerStopped, ticks, clientGone,
                   written, subscribeCh, subscribeChCloses, held, emitVars,
                   srvHistVars>>

\* Middleware 215-241: a connection is accepted, the headers are set, the
\* on-connect heartbeat is written, then ticker, data channel and handler
\* scope are made and the handler is started
MwAccept(c) ==
    /\ Alive
    /\ mwPc[c] = "idle"
    /\ \A d \in ConnIds : d < c => mwPc[d] # "idle"
    /\ \E ok \in WriteOutcomes(c) : writeAndFlush(c, newHeartbeatEvent, ok)
    /\ mwPc' = [mwPc EXCEPT ![c] = "loop"]
    /\ hPc' = [hPc EXCEPT ![c] = "store"]
    /\ UNCHANGED <<clientVars, ctrlDone, ctrlVars, data, dataCloses,
                   handlerCanceled, tickerStopped, ticks, clientGone,
                   subscribeCh, subscribeChCloses, held, emitVars,
                   srvHistVars>>

\* Middleware 246-248: case <-clientGone
MwClientGone(c) ==
    /\ Alive
    /\ mwPc[c] = "loop"
    /\ clientGone[c]
    /\ mwPc' = [mwPc EXCEPT ![c] = "cancelHandler"]
    /\ UNCHANGED <<clientVars, ctrlDone, ctrlVars, data, dataCloses,
                   handlerCanceled, tickerStopped, ticks, clientGone, written,
                   hVars, emitVars, srvHistVars>>

\* Middleware 249-251: case <-c.shutdownCtx.Done()
MwShutdown(c) ==
    /\ Alive
    /\ mwPc[c] = "loop"
    /\ ctrlDone
    /\ mwPc' = [mwPc EXCEPT ![c] = "cancelHandler"]
    /\ UNCHANGED <<clientVars, ctrlDone, ctrlVars, data, dataCloses,
                   handlerCanceled, tickerStopped, ticks, clientGone, written,
                   hVars, emitVars, srvHistVars>>

\* Middleware 252-256: case <-heartbeatTicker.C; SendResponse reports only
\* a formatting failure, so the loop goes on whatever the write did
MwHeartbeat(c) ==
    /\ Alive
    /\ mwPc[c] = "loop"
    /\ ticks < MaxTicks
    /\ ticks' = ticks + 1
    /\ \E ok \in WriteOutcomes(c) : writeAndFlush(c, newHeartbeatEvent, ok)
    /\ UNCHANGED <<clientVars, ctrlDone, ctrlVars, mwPc, data, dataCloses,
                   handlerCanceled, tickerStopped, clientGone, hVars,
                   emitVars, srvHistVars>>

\* Middleware 257-264: case d, ok := <-data
MwData(c) ==
    /\ Alive
    /\ mwPc[c] = "loop"
    /\ data[c] # <<>>
    /\ data' = [data EXCEPT ![c] = Tail(@)]
    /\ \E ok \in WriteOutcomes(c) : writeAndFlush(c, Head(data[c]), ok)
    /\ UNCHANGED <<clientVars, ctrlDone, ctrlVars, mwPc, dataCloses,
                   handlerCanceled, tickerStopped, ticks, clientGone, hVars,
                   emitVars, srvHistVars>>

\* Middleware 240: the deferred handlerCleanup() runs first
MwCancelHandler(c) ==
    /\ Alive
    /\ mwPc[c] = "cancelHandler"
    /\ handlerCanceled' = [handlerCanceled EXCEPT ![c] = TRUE]
    /\ mwPc' = [mwPc EXCEPT ![c] = "closeData"]
    /\ UNCHANGED <<clientVars, ctrlDone, ctrlVars, data, dataCloses,
                   tickerStopped, ticks, clientGone, written, hVars,
                   emitVars, srvHistVars>>

\* a Middleware that returns without its last two deferred calls
MwReturnWithoutClose(c) ==
    /\ Alive
    /\ mwPc[c] = "closeData"
    /\ mwPc' = [mwPc EXCEPT ![c] = "done"]
    /\ UNCHANGED <<clientVars, ctrlDone, ctrlVars, data, dataCloses,
                   handlerCanceled, tickerStopped, ticks, clientGone, written,
                   hVars, emitVars, srvHistVars>>

\* Middleware 237, 234: the deferred close(data), then the deferred
\* heartbeatTicker.Stop(), and Middleware returns
MwCloseData(c) ==
    /\ Alive
    /\ mwPc[c] = "closeData"
    /\ dataCloses' = [dataCloses EXCEPT ![c] = @ + 1]
    /\ tickerStopped' = [tickerStopped EXCEPT ![c] = TRUE]
    /\ mwPc' = [mwPc EXCEPT ![c] = "done"]
    /\ UNCHANGED <<clientVars, ctrlDone, ctrlVars, data, handlerCanceled,
                   ticks, clientGone, written, hVars, emitVars, srvHistVars>>

\* the handler's scope: derived from the controller's, canceled by
\* handlerCleanup
HandlerCtxDone(c) == ctrlDone \/ handlerCanceled[c]

\* createMux 39-44: make(chan Event, BufferSize); Store(req.Context(), ch)
HStore(c) ==
    /\ Alive
    /\ hPc[c] = "store"
    /\ subscribers' = subscribers \cup {c}
    /\ hPc' = [hPc EXCEPT ![c] = "select"]
    /\ UNCHANGED <<clientVars, ctrlDone, emitStrategy, bufferSize, mwVars,
                   subscribeCh, subscribeChCloses, held, emitVars,
                   srvHistVars>>

\* a receive that takes the newest element of the queue
HRecvNewest(c) ==
    /\ Alive
    /\ hPc[c] = "select"
    /\ subscribeCh[c] # <<>>
    /\ held' = [held EXCEPT ![c] = subscribeCh[c][Len(subscribeCh[c])]]
    /\ subscribeCh' = [subscribeCh EXCEPT
                         ![c] = SubSeq(@, 1, Len(@) - 1)]
    /\ hPc' = [hPc EXCEPT ![c] = "forward"]
    /\ UNCHANGED <<clientVars, ctrlDone, ctrlVars, mwVars, subscribeChCloses,
                   emitVars, srvHistVars>>

\* createMux 53: case data := <-subscribeCh
HRecv(c) ==
    /\ Alive
    /\ hPc[c] = "select"
    /\ subscribeCh[c] # <<>>
    /\ held' = [held EXCEPT ![c] = Head(subscribeCh[c])]
    /\ subscribeCh' = [subscribeCh EXCEPT ![c] = Tail(@)]
    /\ hPc' = [hPc EXCEPT ![c] = "forward"]
    /\ UNCHANGED <<clientVars, ctrlDone, ctrlVars, mwVars, subscribeChCloses,
                   emitVars, srvHistVars>>

\* createMux 55: case res <- data
HForward(c) ==
    /\ Alive
    /\ hPc[c] = "forward"
    /\ dataCloses[c] = 0
    /\ Len(data[c]) < DataChCap
    /\ data' = [data EXCEPT ![c] = Append(@, held[c])]
    /\ held' = [held EXCEPT ![c] = NoEvent]
    /\ hPc' = [hPc EXCEPT ![c] = "select"]
    /\ UNCHANGED <<clientVars, ctrlDone, ctrlVars, mwPc, dataCloses,
                   handlerCanceled, tickerStopped, ticks, clientGone, written,
                   subscribeCh, subscribeChCloses, emitVars, srvHistVars>>

\* createMux 55: the select picks the send and data has been closed
HForwardPanic(c) ==
    /\ Alive
    /\ hPc[c] = "forward"
    /\ dataCloses[c] > 0
    /\ panicked' = "send on closed channel"
    /\ UNCHANGED <<serverVars, ctrlDone, cfgVars, obsVars, cliVars, loopVars,
                   fanVars, sdVars, rdVars, histVars, startPc, errPc>>

\* createMux 56-57, 59-60: case <-ctx.Done(): return
HCtxDone(c) ==
    /\ Alive
    /\ hPc[c] \in {"select", "forward"}
    /\ HandlerCtxDone(c)
    /\ held' = [held EXCEPT ![c] = NoEvent]
    /\ hPc' = [hPc EXCEPT ![c] = "delete"]
    /\ UNCHANGED <<clientVars, ctrlDone, ctrlVars, mwVars, subscribeCh,
                   subscribeChCloses, emitVars, srvHistVars>>

\* createMux 47: the deferred sseCtrl.Delete(req.Context())
HDelete(c) ==
    /\ Alive
    /\ hPc[c] = "delete"
    /\ subscribers' = subscribers \ {c}
    /\ hPc' = [hPc EXCEPT ![c] = "close"]
    /\ UNCHANGED <<clientVars, ctrlDone, emitStrategy, bufferSize, mwVars,
                   subscribeCh, subscribeChCloses, held, emitVars,
                   srvHistVars>>

\* createMux 48: close(subscribeCh)
HClose(c) ==
    /\ Alive
    /\ hPc[c] = "close"
    /\ subscribeChCloses' = [subscribeChCloses EXCEPT ![c] = @ + 1]
    /\ hPc' = [hPc EXCEPT ![c] = "done"]
    /\ UNCHANGED <<clientVars, ctrlDone, ctrlVars, mwVars, subscribeCh, held,
                   emitVars, srvHistVars>>

\* ------------------------------------ Emit (observer.go:272-275) --------
EmittedEvent(i) == [name |-> "", data |-> i]

\* the producer calls Emit: sync.Map.Range starts
EmitBegin ==
    /\ Alive
    /\ emitPc = "idle"
    /\ emitNext <= MaxEmits
    /\ emitPc' = "range"
    /\ emitSnap' = subscribers
    /\ emitVisited' = {}
    /\ UNCHANGED <<clientVars, ctrlDone, ctrlVars, mwVars, hVars, emitNext,
                   srvHistVars>>

\* ------------------------- POST /emit (part_006:65-94) ------------------
\* a handler that checks the data on the JSON path only
emitRequestRejectedJsonOnly(sub) ==
    sub.json /\ (sub.readErr \/ ~sub.wellFormed \/ sub.data = "")

\* lines 69-76 and 83-91: the request is answered with respondError
emitRequestRejected(sub) ==
    IF sub.json
    THEN sub.readErr \/ ~sub.wellFormed \/ sub.data = ""
    ELSE sub.readErr \/ sub.data = ""

\* the handler of POST /emit: a rejected request is answered 400 and
\* returns; otherwise Emit is called with the submitted Event (its Range
\* starts) and the response is the implicit 200
PostEmit(sub) ==
    /\ Alive
    /\ lastSub' = sub
    /\ IF emitRequestRejected(sub)
       THEN /\ respStatus' = StatusBadRequest
            /\ UNCHANGED <<emitVars, emitData>>
       ELSE /\ emitPc = "idle"
            /\ emitNext <= MaxEmits
            /\ respStatus' = StatusOK
            /\ emitData' = Append(emitData, sub.data)
            /\ emitPc' = "range"
            /\ emitSnap' = subscribers
            /\ emitVisited' = {}
            /\ UNCHANGED emitNext
    /\ UNCHANGED <<clientVars, ctrlDone, ctrlVars, mwVars, hVars, skipped>>

\* sync.Map.Range visits no key twice; a key stored or deleted during the
\* call may or may not be visited
RangeCandidates == (emitSnap \cup subscribers) \ emitVisited

RangeMustVisit == (emitSnap \cap subscribers) \ emitVisited

\* an emission function that waits on a full queue under every strategy
createEmitHandlerAlwaysBlocking(strategy, c) ==
    IF Len(subscribeCh[c]) < bufferSize THEN "send" ELSE "block"

\* createEmitHandlerBasedOnStrategy 118-154: what the emission function
\* does with a subscriber's channel
createEmitHandlerBasedOnStrategy(strategy, c) ==
    LET room == Len(subscribeCh[c]) < bufferSize
    IN  CASE strategy = EmitStrategyBlock ->
                 IF room THEN "send" ELSE "block"
          [] strategy = EmitStrategyDrop ->
                 IF room THEN "send" ELSE "skip"
          [] strategy = EmitStrategyTimeout ->
                 IF room THEN "send" ELSE "skip"

\* lines 123, 131, 144: the event is enqueued on the subscriber's channel
EmitSend(c) ==
    /\ Alive
    /\ emitPc = "range"
    /\ c \in RangeCandidates
    /\ subscribeChCloses[c] = 0
    /\ createEmitHandlerBasedOnStrategy(emitStrategy, c) = "send"
    /\ subscribeCh' = [subscribeCh EXCEPT
                         ![c] = Append(@, EmittedEvent(emitNext))]
    /\ emitVisited' = emitVisited \cup {c}
    /\ UNCHANGED <<clientVars, ctrlDone, ctrlVars, mwVars, hPc,
                   subscribeChCloses, held, emitPc, emitNext, emitSnap,
                   srvHistVars>>

\* lines 132-133, 145-146: the queue is full, the event is skipped
EmitSkip(c) ==
    /\ Alive
    /\ emitPc = "range"
    /\ c \in RangeCandidates
    /\ subscribeChCloses[c] = 0
    /\ createEmitHandlerBasedOnStrategy(emitStrategy, c) = "skip"
    /\ skipped' = [skipped EXCEPT ![c] = @ \cup {emitNext}]
    /\ emitVisited' = emitVisited \cup {c}
    /\ UNCHANGED <<clientVars, ctrlDone, ctrlVars, mwVars, hVars, emitPc,
                   emitNext, emitSnap, postVars>>

\* lines 123, 131, 144: the subscriber's channel has been closed
EmitPanic(c) ==
    /\ Alive
    /\ emitPc = "range"
    /\ c \in RangeCandidates
    /\ subscribeChCloses[c] > 0
    /\ panicked' = "send on closed channel"
    /\ UNCHANGED <<serverVars, ctrlDone, cfgVars, obsVars, cliVars, loopVars,
                   fanVars, sdVars, rdVars, histVars, startPc, errPc>>

\* an Emit that returns with subscribers still to visit
EmitEndEarly ==
    /\ Alive
    /\ emitPc = "range"
    /\ emitPc' = "idle"
    /\ emitNext' = emitNext + 1
    /\ emitVisited' = {}
    /\ emitSnap' = {}
    /\ UNCHANGED <<clientVars, ctrlDone, ctrlVars, mwVars, hVars,
                   srvHistVars>>

\* Range is over, Emit returns
EmitEnd ==
    /\ Alive
    /\ emitPc = "range"
    /\ RangeMustVisit = {}
    /\ emitPc' = "idle"
    /\ emitNext' = emitNext + 1
    /\ emitVisited' = {}
    /\ emitSnap' = {}
    /\ UNCHANGED <<clientVars, ctrlDone, ctrlVars, mwVars, hVars,
                   srvHistVars>>

\* --------------------------------------------------- specifications -----
\* number of Observers subscribed where the reconnection loop is explored
NumObsReconn == 2

\* The Client with the whole reconnection loop under the wait policy:
\* NumObsReconn Observers built with Limit(1), each already being drained by
\* WaitForAll.  Their queues are unbuffered, so every receive is the
\* hand-off in FanoutDeliver.
Init ==
    /\ InitClient({Build(Limit(NewObserverBuilder, 1))}, {FALSE}, NumObsReconn,
                  "reading", MaxEventsReconn)
    /\ InitServer({EmitStrategyBlock}, {BufferSizeDefault})
    /\ CodecIdle

Next ==
    \/ Start \/ StartReturn
    \/ LoopTop \/ ConnectFail \/ ConnectOK \/ NotifyFirstConn
    \/ ScanEvent \/ ScanEOF \/ ScanErr \/ ScanCanceled
    \/ SendEvent \/ SendCtxDone \/ SendPanic
    \/ ErrCheck \/ ErrPublish \/ ErrPublishPanic
    \/ LoopCtxReturn \/ LoopCapExceeded \/ LoopBackoff
    \/ FatalPublish \/ FatalPublishPanic
    \/ AppShutdown \/ LoopShutdown \/ LoopDeferredShutdown
    \/ ShutdownCancel \/ ShutdownCloseEventCh \/ ShutdownCloseErrorCh
    \/ ShutdownCloseObserver \/ ShutdownUnlock
    \/ FanoutCheck \/ FanoutRecvClosed \/ FanoutSkip \/ FanoutDeliver
    \/ FanoutStop \/ FanoutSendPanic \/ FanoutEndPass
    \/ DeleteFind \/ DeleteShift \/ DeleteClear \/ DeleteAssign
    \/ \E o \in ObsIds : ReaderDone(o)
    \/ ErrConsumerWait \/ ErrConsumerClosed
    \/ CtrlShutdown

Spec == Init /\ [][Next]_vars

\* The Client on a network that accepts its first connection and keeps the
\* stream open: every built Observer subscribed before Start, the wait
\* policy (dropSlowConsumerMsgs unset).
InitDispatch ==
    /\ InitClient(ObserverBuilds, {FALSE}, NumObs, "idle", MaxEvents)
    /\ InitServer({EmitStrategyBlock}, {BufferSizeDefault})
    /\ CodecIdle

NextDispatch ==
    \/ Start \/ StartReturn
    \/ LoopTop \/ ConnectOK \/ NotifyFirstConn
    \/ ScanEvent \/ ScanCanceled
    \/ SendEvent \/ SendCtxDone \/ SendPanic
    \/ ErrCheck \/ LoopCtxReturn
    \/ AppShutdown \/ LoopDeferredShutdown
    \/ ShutdownCancel \/ ShutdownCloseEventCh \/ ShutdownCloseErrorCh
    \/ ShutdownCloseObserver \/ ShutdownUnlock
    \/ FanoutCheck \/ FanoutRecvClosed \/ FanoutSkip \/ FanoutDeliver
    \/ FanoutStop \/ FanoutSendPanic \/ FanoutEndPass
    \/ DeleteFind \/ DeleteShift \/ DeleteClear \/ DeleteAssign
    \/ \E o \in ObsIds : WaitForAll(o) \/ ReaderRecv(o) \/ ReaderDone(o)

SpecDispatch == InitDispatch /\ [][NextDispatch]_vars

\* The server under the Block strategy: connections come and go, one
\* producer calls Emit, the controller is shut down at any time.  The Client
\* of this module is not started.
InitSrv ==
    /\ InitClient({Build(NewObserverBuilder)}, {FALSE}, 0, "idle", 0)
    /\ InitServer({EmitStrategyBlock}, {MaxBufferSize})
    /\ CodecIdle

ConnStep(c) ==
    \/ ClientDisconnect(c)
    \/ MwAccept(c) \/ MwClientGone(c) \/ MwShutdown(c) \/ MwData(c)
    \/ MwCancelHandler(c) \/ MwCloseData(c)
    \/ HStore(c) \/ HRecv(c) \/ HForward(c) \/ HForwardPanic(c)
    \/ HCtxDone(c) \/ HDelete(c) \/ HClose(c)

NextSrv ==
    \/ CtrlShutdown
    \/ \E c \in ConnIds : ConnStep(c) \/ EmitSend(c) \/ EmitPanic(c)
    \/ EmitBegin \/ EmitEnd

SpecSrv == InitSrv /\ [][NextSrv]_vars

\* The same server under the Drop strategy
InitSrvDrop ==
    /\ InitClient({Build(NewObserverBuilder)}, {FALSE}, 0, "idle", 0)
    /\ InitServer({EmitStrategyDrop}, {BufferSizeDefault})
    /\ CodecIdle

NextSrvDrop ==
    \/ CtrlShutdown
    \/ \E c \in ConnIds :
          ConnStep(c) \/ EmitSend(c) \/ EmitSkip(c) \/ EmitPanic(c)
    \/ EmitBegin \/ EmitEnd

SpecSrvDrop == InitSrvDrop /\ [][NextSrvDrop]_vars

\* ------------------------------------------------------- properties -----
\* the events sent so far on the Observer's queue, in order
Delivered(o) == recvd[o] \o EventCh[o]

\* the dispatched events that pass the Observer's filters, in order
Matching(o) ==
    SelectSeq(dispatched, LAMBDA e : hasSatisfiedFilters(obsCfg[o], e))

\* built with Limit(k) and without First()
IsLimitObs(o) == ~obsCfg[o].closeOnFirst /\ obsCfg[o].limit > 0

\* the fanout is between two passes
BetweenPasses == fanoutPc = "recv"

\* C1: under the wait policy and without any Shutdown, an Observer built
\* with Limit(k) is never sent more than k events, its queue is not closed
\* before the k-th delivery, and once the pass of the k-th matching event is
\* over the queue is closed (once) having carried exactly the first k
\* matching events.
C1_LimitClosesAfterExactlyK ==
    \A o \in ObsIds :
        (IsLimitObs(o) /\ ~dropSlowConsumerMsgs) =>
            /\ Len(Delivered(o)) <= obsCfg[o].limit
            /\ (~closed /\ EventChCloses[o] > 0) =>
                   /\ Len(Delivered(o)) = obsCfg[o].limit
                   /\ EventChCloses[o] = 1
            /\ (~closed /\ BetweenPasses
                  /\ Len(Matching(o)) >= obsCfg[o].limit) =>
                   /\ EventChCloses[o] = 1
                   /\ Delivered(o) = Take(Matching(o), obsCfg[o].limit)

\* C1 witness: an Observer with Limit(MaxLimit) was closed after MaxLimit
\* deliveries and a further matching event has been dispatched since
C1_Witness ==
    \E o \in ObsIds :
        /\ IsLimitObs(o)
        /\ obsCfg[o].limit = MaxLimit
        /\ ~closed
        /\ BetweenPasses
        /\ EventChCloses[o] = 1
        /\ Len(recvd[o]) = MaxLimit
        /\ Len(Matching(o)) > MaxLimit

\* C2: an Observer built with First() is sent at most one event; once the
\* pass of its first matching event is over its queue is closed having
\* carried that event only, and a reader that sees the queue closed (with
\* no Shutdown) has received exactly one event, however many matching
\* events were dispatched afterwards.
C2_FirstClosesAfterOne ==
    \A o \in ObsIds :
        (obsCfg[o].closeOnFirst /\ ~dropSlowConsumerMsgs) =>
            /\ Len(Delivered(o)) <= 1
            /\ (~closed /\ readerPc[o] = "done") => Len(recvd[o]) = 1
            /\ (~closed /\ BetweenPasses /\ Len(Matching(o)) >= 1) =>
                   /\ EventChCloses[o] = 1
                   /\ Delivered(o) = Take(Matching(o), 1)

\* C2 witness: the reader of a First() Observer has seen the queue closed
\* after one event although more matching events were dispatched
C2_Witness ==
    \E o \in ObsIds :
        /\ obsCfg[o].closeOnFirst
        /\ ~closed
        /\ readerPc[o] = "done"
        /\ Len(recvd[o]) = 1
        /\ Len(Matching(o)) = MaxEvents

\* C4: every Observer's queue is closed at most once, whether by the
\* fanout's removal pass or by Shutdown.
C4_ObserverQueueClosedOnce ==
    \A o \in ObsIds : EventChCloses[o] <= 1

\* The spec's scenario: N Observers each built with Limit(k), subscribed
\* before Start, drained by WaitForAll, no Shutdown while they wait.
InitLimitScenario ==
    /\ InitClient({Build(Limit(NewObserverBuilder, k)) : k \in 1..MaxLimit},
                  {FALSE}, NumObs, "idle", MaxEvents)
    /\ \A o \in ObsIds : obsCfg[o] = obsCfg[1]
    /\ InitServer({EmitStrategyBlock}, {BufferSizeDefault})
    /\ CodecIdle

FanoutStep ==
    \/ FanoutCheck \/ FanoutSkip \/ FanoutDeliver \/ FanoutEndPass
    \/ DeleteFind \/ DeleteShift \/ DeleteClear \/ DeleteAssign

NextLimitScenario ==
    \/ Start \/ StartReturn
    \/ LoopTop \/ ConnectOK \/ NotifyFirstConn
    \/ ScanEvent \/ SendEvent
    \/ FanoutStep
    \/ \E o \in ObsIds : WaitForAll(o) \/ ReaderDone(o)

\* the fanout goroutine and the goroutines calling WaitForAll are scheduled
SpecLimitScenario ==
    /\ InitLimitScenario
    /\ [][NextLimitScenario]_vars
    /\ WF_vars(FanoutStep)
    /\ \A o \in ObsIds :
          WF_vars(WaitForAll(o) \/ ReaderDone(o))

AllWaitForAllReturned == \A o \in ObsIds : readerPc[o] = "done"

\* C3: with every Observer built with Limit(k) and drained by WaitForAll,
\* once k matching events have been dispatched every WaitForAll eventually
\* returns, and what it returns is the first k matching events in emission
\* order.
C3_WaitForAllReturnsFirstK ==
    /\ [](\A o \in ObsIds :
             readerPc[o] = "done" =>
                 /\ Len(recvd[o]) = obsCfg[o].limit
                 /\ recvd[o] = Take(Matching(o), obsCfg[o].limit)
                 /\ \A i \in 1..Len(recvd[o]) :
                       \A j \in 1..Len(recvd[o]) :
                           i < j => recvd[o][i].data < recvd[o][j].data)
    /\ ((\A o \in ObsIds : Len(Matching(o)) >= obsCfg[o].limit)
            ~> AllWaitForAllReturned)

\* C3 witness: every WaitForAll has returned MaxLimit events after more
\* than MaxLimit matching events were dispatched
C3_Witness ==
    /\ AllWaitForAllReturned
    /\ \A o \in ObsIds :
          /\ obsCfg[o].limit = MaxLimit
          /\ Len(recvd[o]) = MaxLimit
          /\ Len(Matching(o)) > MaxLimit

\* C5: a Shutdown call on a Client that is already closed (by application
\* code, or the reconnection loop's explicit or deferred call) changes
\* nothing: the closed flag stays set, the scope, the raw event channel, the
\* error channel and every Observer queue are left as they are and no body
\* is started; the raw event channel and the error channel are never closed
\* twice; a Controller that was shut down stays shut down.
C5_ShutdownOnClosedIsNoOp ==
    [][/\ (/\ closed
           /\ \/ extCalls' # extCalls
              \/ loopPc \in {"shutdown", "deferred"} /\ loopPc' # loopPc)
          => /\ closed'
             /\ UNCHANGED <<shutdownCtxDone, eventChCloses, errorChCloses,
                            EventChCloses, sdPc, sdI, lockHolder, panicked>>
       /\ eventChCloses' <= 1
       /\ errorChCloses' <= 1
       /\ ctrlDone => ctrlDone']_vars

\* C5 witness: the Client was closed by one application call, a second
\* application call and the loop's deferred call found it closed, the
\* Controller was shut down, and nothing panicked
C5_Witness ==
    /\ closed
    /\ extCalls = MaxExtShutdowns
    /\ loopPc = "done"
    /\ sdPc = "idle"
    /\ eventChCloses = 1
    /\ errorChCloses = 1
    /\ ctrlDone
    /\ Alive

\* C6 as stated: with every attempt failing inside one 60 second window the
\* Client makes the initial attempt and at most 3 retries.
C6_AtMostFourAttempts ==
    (connects = 0 /\ resets = 0) => attempts <= RetryCap + 1

\* C6: with every attempt failing inside one 60 second window the Client
\* makes the initial attempt and at most RetryCap + 1 retries; the fatal
\* error is offered only after the (RetryCap + 2)-th failed attempt, and
\* once the loop has gone through its Shutdown the Client is Closed.
C6_FatalAfterFiveFailures ==
    (connects = 0 /\ resets = 0) =>
        /\ attempts <= RetryCap + 2
        /\ retryCounter <= RetryCap + 1
        /\ (loopPc = "fatal" \/ fatalOffers > 0) =>
               /\ attempts = RetryCap + 2
               /\ retryCounter = RetryCap + 1
        /\ (fatalOffers > 0 /\ loopPc \in {"deferred", "inDeferred", "done"})
               => closed

\* C6 witness: five attempts failed, the fatal error was offered and the
\* loop ended with the Client closed, without any call from outside
C6_Witness ==
    /\ connects = 0
    /\ resets = 0
    /\ extCalls = 0
    /\ attempts = RetryCap + 2
    /\ fatalOffers = 1
    /\ loopPc = "done"
    /\ closed
    /\ Alive

\* C7 as stated: when the cap is exceeded and the loop has ended, the fatal
\* error has been delivered on the error channel exactly once.
C7_FatalDeliveredOnce ==
    (fatalOffers > 0 /\ loopPc = "done" /\ Alive) => fatalDelivered = 1

\* C7: when the cap is exceeded the fatal error is offered once, by a
\* non-blocking send on the unbuffered error channel: it is delivered (at
\* most once, before the channel is closed) when a consumer is blocked on
\* the channel at that moment and dropped otherwise; after the offer no
\* connection attempt is made and when the loop ends the Client is Closed.
C7_FatalOfferedOnceMaybeDropped ==
    [][/\ fatalOffers' <= 1
       /\ fatalDelivered' <= fatalOffers'
       /\ fatalDelivered' > fatalDelivered
             => errPc = "waiting" /\ errorChCloses = 0
       /\ (fatalOffers' > fatalOffers /\ errPc # "waiting")
             => fatalDelivered' = fatalDelivered
       /\ (fatalOffers' > fatalOffers /\ errPc = "waiting"
             /\ errorChCloses = 0)
             => fatalDelivered' = fatalDelivered + 1
       /\ fatalOffers > 0 => attempts' = attempts
       /\ (fatalOffers' > 0 /\ loopPc' = "done") => closed']_vars

\* C7 witness: the cap was exceeded with no consumer blocked on the error
\* channel; the fatal error was dropped and the Client closed
C7_Witness ==
    /\ fatalOffers = 1
    /\ fatalDelivered = 0
    /\ extCalls = 0
    /\ loopPc = "done"
    /\ closed
    /\ errorChCloses = 1
    /\ Alive

\* C8: the "ready" notification is signalled at most once in the lifetime
\* of a Client.
C8_ReadySignalledOnce == readySignals <= 1

\* the data events of a sequence of records
DataEvents(s) == SelectSeq(s, LAMBDA e : e.name # eventNameHeartbeat)

\* the data events a connection holds, oldest first: written to the
\* connection, in the data queue, held by the handler, in the subscriber
\* queue
Chain(c) ==
    DataEvents(written[c]) \o data[c]
        \o (IF held[c] = NoEvent THEN <<>> ELSE <<held[c]>>)
        \o subscribeCh[c]

InEmissionOrder(s) ==
    \A i \in 1..Len(s) : \A j \in 1..Len(s) : i < j => s[i].data < s[j].data

\* C9: with one producer calling Emit sequentially, on every connection the
\* data events written, followed by those still in the data queue, in the
\* handler's hands and in the subscriber queue, are events that were
\* emitted, in emission order, none of them twice.
C9_WrittenInEmissionOrder ==
    \A c \in ConnIds :
        /\ InEmissionOrder(Chain(c))
        /\ \A i \in 1..Len(Chain(c)) :
              /\ Chain(c)[i].name # eventNameHeartbeat
              /\ Chain(c)[i].data \in 1..emitNext
              /\ Chain(c)[i].data = emitNext => emitPc = "range"

\* C9 witness: MaxEmits data events were written to one connection while a
\* second connection was registered
C9_Witness ==
    \E c \in ConnIds :
        /\ Len(DataEvents(written[c])) = MaxEmits
        /\ Cardinality(subscribers) > 1
        /\ Alive

\* C10: under the Drop strategy, a broadcast's visit to a subscriber never
\* waits; a visit to a queue with free capacity appends the event to it,
\* whatever the state of the other queues; a visit to a full queue leaves
\* that queue and everything downstream of it unchanged; a skipped event
\* never shows up on that subscriber's connection; what a connection holds
\* stays in emission order; and a broadcast ends only when every subscriber
\* registered throughout has been visited.
C10_DropSkipsOnlyFullQueues ==
    [][\A c \in ConnIds :
         /\ (emitPc = "range" /\ c \in RangeCandidates
               /\ subscribeChCloses[c] = 0)
               => createEmitHandlerBasedOnStrategy(emitStrategy, c) # "block"
         /\ (c \notin emitVisited /\ c \in emitVisited'
               /\ Len(subscribeCh[c]) < bufferSize)
               => /\ subscribeCh'[c] =
                        Append(subscribeCh[c], EmittedEvent(emitNext))
                  /\ skipped'[c] = skipped[c]
         /\ (c \notin emitVisited /\ c \in emitVisited'
               /\ Len(subscribeCh[c]) >= bufferSize)
               => /\ subscribeCh'[c] = subscribeCh[c]
                  /\ data'[c] = data[c]
                  /\ held'[c] = held[c]
                  /\ written'[c] = written[c]
                  /\ skipped'[c] = skipped[c] \cup {emitNext}
         /\ \A i \in 1..Len(Chain(c)') : Chain(c)'[i].data \notin skipped'[c]
         /\ InEmissionOrder(Chain(c)')
         /\ (emitPc = "range" /\ emitPc' = "idle")
               => (c \in emitSnap \cap subscribers => c \in emitVisited)]_vars

\* C10 witness: the last event was skipped for one subscriber, whose queue
\* was full, while another subscriber holds every emitted event
C10_Witness ==
    \E c \in ConnIds : \E d \in ConnIds :
        /\ c # d
        /\ emitStrategy = EmitStrategyDrop
        /\ MaxEmits \in skipped[d]
        /\ skipped[c] = {}
        /\ Len(Chain(c)) = MaxEmits
        /\ Alive

\* ---------------------------------------- Emit under Drop and Timeout ----
\* The server under the Drop or the Timeout strategy, with subscribers that
\* are free never to drain their queues and whose peers may disconnect: the
\* producer's goroutine is scheduled, nothing is assumed of the handlers
\* and Middleware loops.
InitEmitBounded ==
    /\ InitClient({Build(NewObserverBuilder)}, {FALSE}, 0, "idle", 0)
    /\ InitServer({EmitStrategyDrop, EmitStrategyTimeout},
                  {BufferSizeDefault})
    /\ CodecIdle

EmitStep ==
    \/ \E c \in ConnIds : EmitSend(c) \/ EmitSkip(c) \/ EmitPanic(c)
    \/ EmitEnd

\* a connection's steps while the Controller is not shut down
ConnStepRunning(c) ==
    \/ ClientDisconnect(c)
    \/ MwAccept(c) \/ MwClientGone(c) \/ MwData(c)
    \/ MwCancelHandler(c) \/ MwCloseData(c)
    \/ HStore(c) \/ HRecv(c) \/ HForward(c) \/ HForwardPanic(c)
    \/ HCtxDone(c) \/ HDelete(c) \/ HClose(c)

NextEmitBounded ==
    \/ \E c \in ConnIds : ConnStepRunning(c)
    \/ EmitBegin
    \/ EmitStep

SpecEmitBounded ==
    /\ InitEmitBounded
    /\ [][NextEmitBounded]_vars
    /\ WF_vars(EmitStep)

\* C11: under the Drop and the Timeout strategy every call of Emit ends,
\* whether or not any subscriber drains its queue (it returns, unless it
\* panics on a queue closed under it), and within one call a subscriber is
\* waited for or skipped at most once.
C11_EmitTerminatesUnderDropAndTimeout ==
    /\ (emitPc = "range") ~> (emitPc = "idle" \/ ~Alive)
    /\ [][\A c \in ConnIds :
             skipped'[c] # skipped[c] =>
                 /\ c \notin emitVisited
                 /\ c \in emitVisited'
                 /\ skipped'[c] = skipped[c] \cup {emitNext}]_vars

\* C11 witness: under Timeout every Emit has returned although one
\* subscriber never took anything from its full queue
C11_Witness ==
    \E c \in ConnIds :
        /\ emitStrategy = EmitStrategyTimeout
        /\ emitPc = "idle"
        /\ emitNext = MaxEmits + 1
        /\ c \in subscribers
        /\ Len(subscribeCh[c]) = bufferSize
        /\ held[c] = NoEvent
        /\ DataEvents(written[c]) = <<>>
        /\ skipped[c] # {}
        /\ Alive

\* ------------------------------------------------- Emit under Block -----
\* The server under the Block strategy with subscriber queues of the default
\* capacity, which the producer can fill.
InitSrvBlock ==
    /\ InitClient({Build(NewObserverBuilder)}, {FALSE}, 0, "idle", 0)
    /\ InitServer({EmitStrategyBlock}, {BufferSizeDefault})
    /\ CodecIdle

SpecSrvBlock == InitSrvBlock /\ [][NextSrv]_vars

\* C12: under the Block strategy a visit of Emit to a subscriber happens
\* only when its queue has room and then enqueues the event; no event is
\* ever skipped; and Emit returns only when every subscriber registered
\* throughout the call has been visited, so not while the queue of one of
\* them is still full.
C12_BlockEnqueuesForEveryVisited ==
    [][\A c \in ConnIds :
         /\ skipped'[c] = {}
         /\ (c \notin emitVisited /\ c \in emitVisited')
               => /\ Len(subscribeCh[c]) < bufferSize
                  /\ subscribeCh'[c] =
                        Append(subscribeCh[c], EmittedEvent(emitNext))
         /\ (emitPc = "range" /\ emitPc' = "idle"
               /\ c \in emitSnap \cap subscribers)
               => /\ c \in emitVisited
                  /\ emitNext' = emitNext + 1
         /\ (emitPc = "range" /\ c \in RangeMustVisit
               /\ Len(subscribeCh[c]) >= bufferSize)
               => /\ emitPc' = "range" \/ ~Alive'
                  /\ c \notin emitVisited']_vars

\* C12 witness: Emit has enqueued the second event for one subscriber and is
\* held up by the full queue of another, still registered, subscriber
C12_Witness ==
    \E c \in ConnIds : \E d \in ConnIds :
        /\ c # d
        /\ emitStrategy = EmitStrategyBlock
        /\ emitPc = "range"
        /\ emitNext = MaxEmits
        /\ d \in emitVisited
        /\ c \in RangeMustVisit
        /\ Len(subscribeCh[c]) = bufferSize
        /\ Alive

\* ------------------------------------------- the connection's main loop --
\* number of events the producer emits where the main loop is explored
MaxEmitsConn == 1

\* The server with heartbeat ticks: connections come and go, their writes
\* may fail once the peer is gone, the producer emits under the blocking
\* strategy, the Controller is shut down at any time.
InitConn ==
    /\ InitClient({Build(NewObserverBuilder)}, {FALSE}, 0, "idle", 0)
    /\ InitServer({EmitStrategyBlock}, {BufferSizeDefault})
    /\ CodecIdle

NextConn ==
    \/ CtrlShutdown
    \/ \E c \in ConnIds :
          ConnStep(c) \/ MwHeartbeat(c) \/ EmitSend(c) \/ EmitPanic(c)
    \/ (emitNext <= MaxEmitsConn /\ EmitBegin)
    \/ EmitEnd

SpecConn == InitConn /\ [][NextConn]_vars

\* C13: a connection's Middleware cleans up nothing before its main loop
\* exits, and when it has returned, whichever branch ended the loop, the
\* heartbeat ticker has been stopped, the handler's scope canceled and the
\* data queue closed, the data queue exactly once.
C13_CleanupOnEveryExitPath ==
    \A c \in ConnIds :
        /\ dataCloses[c] <= 1
        /\ mwPc[c] \in {"idle", "loop"} =>
               /\ ~tickerStopped[c]
               /\ ~handlerCanceled[c]
               /\ dataCloses[c] = 0
        /\ mwPc[c] = "closeData" => handlerCanceled[c]
        /\ mwPc[c] = "done" =>
               /\ tickerStopped[c]
               /\ handlerCanceled[c]
               /\ dataCloses[c] = 1

\* C13 witness: one connection ended on its peer's disconnect, another on
\* the Controller's shutdown, and both have run the three cleanup steps
C13_Witness ==
    \E c \in ConnIds : \E d \in ConnIds :
        /\ mwPc[c] = "done" /\ clientGone[c]
        /\ mwPc[d] = "done" /\ ~clientGone[d] /\ ctrlDone
        /\ \A e \in {c, d} :
              tickerStopped[e] /\ handlerCanceled[e] /\ dataCloses[e] = 1
        /\ Alive

\* ------------------------------------------------ connection teardown ---
\* the goroutine running a connection's Middleware
MwStep(c) ==
    \/ MwAccept(c) \/ MwClientGone(c) \/ MwShutdown(c) \/ MwData(c)
    \/ MwCancelHandler(c) \/ MwCloseData(c)

\* the goroutine running a connection's handler
HStep(c) ==
    \/ HStore(c) \/ HRecv(c) \/ HForward(c) \/ HForwardPanic(c)
    \/ HCtxDone(c) \/ HDelete(c) \/ HClose(c)

NextTeardown ==
    \/ CtrlShutdown
    \/ \E c \in ConnIds :
          ClientDisconnect(c) \/ MwStep(c) \/ HStep(c)
             \/ EmitSend(c) \/ EmitPanic(c)
    \/ (emitNext <= MaxEmitsConn /\ EmitBegin)
    \/ EmitEnd

\* every connection's two goroutines are scheduled; nothing is assumed of
\* the producer, the peers and the caller of Shutdown
SpecTeardown ==
    /\ InitConn
    /\ [][NextTeardown]_vars
    /\ \A c \in ConnIds : WF_vars(MwStep(c)) /\ WF_vars(HStep(c))

\* the connection is torn down: loop and handler have ended, the handle is
\* out of the Registry and its queue closed
TornDown(c) ==
    /\ mwPc[c] = "done"
    /\ hPc[c] = "done"
    /\ c \notin subscribers
    /\ subscribeChCloses[c] = 1

C15_WriteFailureStopsLoop ==
    [][/\ \A c \in ConnIds :
             (/\ mwPc[c] = "loop"
              /\ Len(data'[c]) < Len(data[c])
              /\ written'[c] = written[c]) => mwPc'[c] # "loop"
       /\ (ticks' # ticks /\ written' = written) =>
             \E c \in ConnIds : mwPc[c] = "loop" /\ mwPc'[c] # "loop"]_vars

InitFilters ==
    /\ InitClient(FilterBuilds, {FALSE}, NumObs, "idle", MaxEvents)
    /\ InitServer({EmitStrategyBlock}, {BufferSizeDefault})
    /\ CodecIdle

SpecFilters == InitFilters /\ [][NextLimitScenario]_vars

\* Build appended the heartbeat filter: built without IncludeHeartbeat()
HeartbeatExcluded(o) ==
    \E i \in 1..Len(obsCfg[o].filters) :
        obsCfg[o].filters[i] = FilterNoHeartbeatDesc

\* the number of deliveries after which the Observer is complete
CompleteAfter(o) == IF obsCfg[o].closeOnFirst THEN 1 ELSE obsCfg[o].limit

\* C17: an Observer built without IncludeHeartbeat() is never sent an event
\* named "heartbeat", whatever its other filters; an Observer built with
\* IncludeHeartbeat() and no filter is sent every event, heartbeats too,
\* and they count toward its Limit / First completion.
C17_HeartbeatOnlyWhenIncluded ==
    \A o \in ObsIds :
        /\ HeartbeatExcluded(o) =>
               \A i \in 1..Len(Delivered(o)) :
                   Delivered(o)[i].name # eventNameHeartbeat
        /\ (obsCfg[o].filters = <<>> /\ BetweenPasses) =>
               /\ Delivered(o) = Take(dispatched, CompleteAfter(o))
               /\ Len(dispatched) >= CompleteAfter(o) => EventChCloses[o] = 1

\* C17 witness: heartbeats were dispatched; an Observer with
\* IncludeHeartbeat() and Limit(MaxLimit) completed on a heartbeat while an
\* Observer without it was sent none of them
C17_Witness ==
    \E o \in ObsIds : \E p \in ObsIds :
        /\ obsCfg[o].filters = <<>>
        /\ obsCfg[o].limit = MaxLimit
        /\ readerPc[o] = "done"
        /\ recvd[o][MaxLimit].name = eventNameHeartbeat
        /\ HeartbeatExcluded(p)
        /\ obsCfg[p].limit = MaxLimit
        /\ Len(recvd[p]) < MaxLimit
        /\ BetweenPasses
        /\ Len(dispatched) = MaxEvents

\* built with On(n): the name n of the (first) On filter
IsOnObs(o) == obsCfg[o].filters # <<>> /\ obsCfg[o].filters[1].kind = "On"

OnName(o) == obsCfg[o].filters[1].event

\* the dispatched events named n, in order
Named(n) == SelectSeq(dispatched, LAMBDA e : e.name = n)

\* C18: an Observer built with On(n) and Limit(k) is sent exactly the
\* events named n, in order; events with another name do not count toward
\* its limit, and once the pass of the k-th event named n is over its queue
\* is closed having carried the first k of them.
C18_OnAndLimitDeliverNamedOnly ==
    \A o \in ObsIds :
        (IsOnObs(o) /\ IsLimitObs(o) /\ OnName(o) # eventNameHeartbeat) =>
            /\ \A i \in 1..Len(Delivered(o)) :
                   Delivered(o)[i].name = OnName(o)
            /\ Len(Delivered(o)) <= obsCfg[o].limit
            /\ Delivered(o) =
                  Take(Named(OnName(o)), Len(Delivered(o)))
            /\ EventChCloses[o] > 0 =>
                   /\ Len(Delivered(o)) = obsCfg[o].limit
                   /\ EventChCloses[o] = 1
            /\ BetweenPasses =>
                   /\ Delivered(o) =
                         Take(Named(OnName(o)), obsCfg[o].limit)
                   /\ Len(Named(OnName(o))) >= obsCfg[o].limit =>
                          EventChCloses[o] = 1
                   /\ Len(Named(OnName(o))) < obsCfg[o].limit =>
                          EventChCloses[o] = 0

\* C18 witness: as in the spec's scenario, an event of another name then
\* MaxLimit events named Custom; WaitForAll on the On("Custom"),
\* Limit(MaxLimit) Observer has returned exactly the Custom ones
C18_Witness ==
    \E o \in ObsIds :
        /\ IsOnObs(o)
        /\ OnName(o) = eventNameCustom
        /\ obsCfg[o].limit = MaxLimit
        /\ Len(dispatched) = MaxEvents
        /\ dispatched[1].name # eventNameCustom
        /\ readerPc[o] = "done"
        /\ recvd[o] = SubSeq(dispatched, 2, MaxEvents)

\* ------------------------------------------------ WaitForAllOrTimeout ---
\* The spec's scenario and its neighbours: Observers built with Limit(k),
\* unbuffered or with a buffer of one, subscribed before Start, each waited
\* on with WaitForAllOrTimeout; the timer may fire at any time.
InitTimeout ==
    /\ InitClient({Build(Limit(NewObserverBuilder, k)) : k \in 1..MaxLimit}
                     \cup {Build(Buffer(Limit(NewObserverBuilder, MaxLimit),
                                        BufferSizeDefault))},
                  {FALSE}, NumObs, "idle", MaxEvents)
    /\ InitServer({EmitStrategyBlock}, {BufferSizeDefault})
    /\ CodecIdle

NextTimeout ==
    \/ Start \/ StartReturn
    \/ LoopTop \/ ConnectOK \/ NotifyFirstConn
    \/ ScanEvent \/ SendEvent
    \/ FanoutStep
    \/ \E o \in ObsIds :
          \/ WaitForAllOrTimeout(o) \/ ReaderRecv(o) \/ ReaderDone(o)
          \/ WaitHandOver(o) \/ WaitTimeout(o)

SpecTimeout == InitTimeout /\ [][NextTimeout]_vars

\* C19: a WaitForAllOrTimeout that returns the timeout failure returns no
\* events at all, whatever was delivered before; it returns events and no
\* failure only when the queue was closed first, and then everything that
\* was sent on the queue, in order; while the queue is open the timeout is
\* the only way the call returns.
C19_TimeoutDiscardsPartialResult ==
    \A o \in ObsIds :
        /\ waitPc[o] = "timeout" => result[o] = <<>>
        /\ waitPc[o] = "events" =>
               /\ EventChCloses[o] > 0
               /\ EventCh[o] = <<>>
               /\ result[o] = Take(Matching(o), obsCfg[o].limit)
        /\ (waitPc[o] \notin {"none", "select"} /\ EventChCloses[o] = 0) =>
               waitPc[o] = "timeout"

\* C19 witness: as in the spec's scenario, an unbuffered Observer with
\* Limit(MaxLimit) was sent fewer events than its limit, its queue is
\* still open, the timer fired and the call returned no events
C19_Witness ==
    \E o \in ObsIds :
        /\ obsCfg[o].buffer = 0
        /\ obsCfg[o].limit = MaxLimit
        /\ waitPc[o] = "timeout"
        /\ recvd[o] # <<>>
        /\ Len(recvd[o]) < MaxLimit
        /\ EventChCloses[o] = 0
        /\ result[o] = <<>>
        /\ streamNext > streamLen

\* ------------------------------------------------ publishing an error ---
\* C20 as stated: an error of a connection attempt or of the decoder is
\* dropped only when the error channel's single slot is occupied, so only
\* on a channel that has a slot.
C20_DroppedOnlyWhenSlotOccupied == errDropped => ErrorChCap >= 1

\* C20: the reconnection loop publishes the error without waiting for a
\* consumer; the error is handed over when a consumer is blocked receiving
\* on the error channel at that moment and is dropped otherwise, the
\* channel having no slot to hold it.
C20_DroppedUnlessConsumerReceiving ==
    /\ []((loopPc = "errPublish" /\ Alive) =>
             ENABLED (ErrPublish \/ ErrPublishPanic))
    /\ [][(loopPc = "errPublish" /\ loopPc' # loopPc) =>
             /\ loopPc' = "after"
             /\ IF errPc = "waiting"
                THEN errPc' = "busy" /\ errDropped' = errDropped
                ELSE errPc' = errPc /\ errDropped']_vars
    /\ [][errDropped' # errDropped =>
             loopPc = "errPublish" /\ errPc # "waiting"]_vars

\* C20 witness: the error of the first failed attempt was dropped, no
\* error having been published before it, and the loop went on
C20_Witness ==
    /\ errDropped
    /\ attempts = 1
    /\ loopPc = "after"
    /\ ~closed
    /\ Alive

\* ---------------------------------------------------- the emit endpoint --
\* The server under the drop strategy with its connections open and every
\* event submitted through POST /emit.
NextEmitEndpoint ==
    \/ \E c \in ConnIds :
          \/ MwAccept(c) \/ HStore(c) \/ HRecv(c) \/ HForward(c) \/ MwData(c)
          \/ EmitSend(c) \/ EmitSkip(c)
    \/ \E sub \in Submissions : PostEmit(sub)
    \/ EmitEnd

SpecEmitEndpoint == InitSrvDrop /\ [][NextEmitEndpoint]_vars

\* a submission with empty data, or on the JSON path with malformed JSON
InvalidSubmission(sub) == sub.data = "" \/ (sub.json /\ ~sub.wellFormed)

\* C21: a submission to the emit endpoint with empty data (JSON or raw
\* body) or with malformed JSON is answered 400 and never reaches Emit: no
\* call of Emit is given empty data, no queued event has empty data, and a
\* rejected submission leaves the Registry, its queues and the broadcast in
\* progress as they were.
C21_InvalidSubmissionRejected ==
    /\ [](/\ \A i \in 1..Len(emitData) : emitData[i] # ""
          /\ \A c \in ConnIds : \A k \in 1..Len(subscribeCh[c]) :
                /\ subscribeCh[c][k].data \in 1..Len(emitData)
                /\ emitData[subscribeCh[c][k].data] # "")
    /\ [][(/\ InvalidSubmission(lastSub')
           /\ <<lastSub, respStatus>>' # <<lastSub, respStatus>>) =>
              /\ respStatus' = StatusBadRequest
              /\ UNCHANGED <<subscribers, subscribeCh, emitVars, emitData,
                             skipped>>]_vars

\* C21 witness: with an accepted event waiting on a subscriber queue, a
\* raw-body submission with empty data was answered 400
C21_Witness ==
    /\ ~lastSub.json
    /\ lastSub.data = ""
    /\ ~lastSub.readErr
    /\ respStatus = StatusBadRequest
    /\ Len(emitData) >= 1
    /\ \E c \in ConnIds : c \in subscribers /\ subscribeCh[c] # <<>>

\* ------------------------------------------------ the codec round trip --
\* Any Event with non-empty data is encoded and the record is decoded.
InitRoundTrip ==
    /\ InitClient({Build(NewObserverBuilder)}, {FALSE}, 0, "idle", 0)
    /\ InitServer({EmitStrategyBlock}, {BufferSizeDefault})
    /\ codecIn \in {e \in CodecEvents : e.Data # <<>>}
    /\ decLines = <<>>
    /\ decEvent = ZeroEvent
    /\ decOut = <<>>
    /\ decRead = <<>>
    /\ codecPc = "encode"

NextCodec == EncodeEvent \/ ReadEventsLine \/ ReadEventsEOF

SpecRoundTrip == InitRoundTrip /\ [][NextCodec]_vars

\* an Event without its retry field
WithoutRetry(e) == [e EXCEPT !.Retry = NilField]

\* C22: for any Event with non-empty data, decoding the encoder's output
\* yields exactly one Event, with the id, name and data of the encoded one.
C22_RoundTrip ==
    codecPc = "eof" => decOut = <<WithoutRetry(codecIn)>>

\* ------------------------------------------------ the decoder alone ----
\* the longest stream given to the decoder, in lines
MaxLines == 4

\* the lines of the streams: the three field lines, a data line with an
\* empty value, a comment line and the blank line
StreamLines ==
    {PrefixId \o <<"1">>, PrefixEvent \o <<"n">>, PrefixData \o <<"a">>,
     PrefixData \o <<"b">>, PrefixData, <<":">>, <<>>}

InitDecode ==
    /\ InitClient({Build(NewObserverBuilder)}, {FALSE}, 0, "idle", 0)
    /\ InitServer({EmitStrategyBlock}, {BufferSizeDefault})
    /\ codecIn = ZeroEvent
    /\ decLines \in UNION {[1..n -> StreamLines] : n \in 0..MaxLines}
    /\ decEvent = ZeroEvent
    /\ decOut = <<>>
    /\ decRead = <<>>
    /\ codecPc = "scan"

NextDecode == ReadEventsLine \/ ReadEventsEOF

SpecDecode == InitDecode /\ [][NextDecode]_vars

\* the lines of the record being read: those after the last blank line
RECURSIVE CurrentRecord(_)
CurrentRecord(lines) ==
    IF lines = <<>> \/ lines[Len(lines)] = <<>>
    THEN <<>>
    ELSE Append(CurrentRecord(SubSeq(lines, 1, Len(lines) - 1)),
                lines[Len(lines)])

\* the record has a line with this prefix
HasLine(record, prefix) ==
    \E i \in 1..Len(record) : HasPrefix(record[i], prefix)

\* the values of the data lines of a record, one after the other
RECURSIVE DataOf(_)
DataOf(record) ==
    IF record = <<>>
    THEN <<>>
    ELSE (IF HasPrefix(Head(record), PrefixData)
          THEN TrimPrefix(Head(record), PrefixData)
          ELSE <<>>) \o DataOf(Tail(record))

\* C29: the decoder never emits an Event with empty data; at a blank line
\* it emits the accumulated Event exactly when its data is non-empty, and
\* the accumulator is reset whole, so that its id and name are always those
\* of the record being read and never those of an earlier record.
C29_NoEmptyDataAndFullReset ==
    /\ [](/\ \A i \in 1..Len(decOut) : decOut[i].Data # <<>>
          /\ decEvent.Id.set <=> HasLine(CurrentRecord(decRead), PrefixId)
          /\ decEvent.Event.set
                <=> HasLine(CurrentRecord(decRead), PrefixEvent))
    /\ [][/\ decOut' # decOut
             <=> /\ decRead' # decRead
                 /\ decRead'[Len(decRead')] = <<>>
                 /\ decEvent.Data # <<>>
          /\ decOut' # decOut => decOut' = Append(decOut, decEvent)]_vars

\* a record with an id and no data was discarded, and the Event of the
\* next record was emitted without an id
C29_Witness ==
    /\ decRead = <<PrefixId \o <<"1">>, <<>>, PrefixData \o <<"a">>, <<>>>>
    /\ decOut = <<[ZeroEvent EXCEPT !.Data = <<"a">>]>>

\* C30: the data of an emitted Event is the values of the data lines of its
\* record, concatenated in order with nothing between them.
C30_DataLinesConcatenated ==
    [][decOut' # decOut
       => decOut'[Len(decOut')].Data = DataOf(CurrentRecord(decRead))]_vars

\* a record with the data lines a and b was emitted as the data ab
C30_Witness ==
    /\ Len(decRead) >= 3
    /\ decRead[1] = PrefixData \o <<"a">>
    /\ decRead[2] = PrefixData \o <<"b">>
    /\ decRead[3] = <<>>
    /\ decOut # <<>>
    /\ decOut[1].Data = <<"a", "b">>

\* C23: an Observer built without Buffer() has a queue of capacity 1: when
\* it is offered a matching event while its queue is empty and open and no
\* consumer is receiving from it, the dispatcher's send can proceed.
C23_DefaultQueueHoldsOne ==
    \A o \in ObsIds :
        (/\ obsCfg[o] \in FilterBuilds
         /\ Offered(o)
         /\ EventCh[o] = <<>>
         /\ EventChCloses[o] = 0
         /\ readerPc[o] # "reading")
            => CanSend(o)

\* the Observers in the registration list
Registered == {observers[i] : i \in 1..obsLen} \ {NIL}

\* C24: under the wait policy each Observer receives its matching events in
\* the order of the raw event channel, and when the dispatcher delivers an
\* event to any Observer, every earlier event of the raw channel has been
\* delivered to every registered Observer whose filters it passes.
C24_EventByEventInOrder ==
    /\ [](\A o \in ObsIds :
             Delivered(o) = Take(Matching(o), Len(Delivered(o))))
    /\ [][\A o \in ObsIds :
            Delivered(o)' # Delivered(o) =>
               /\ Delivered(o)' = Append(Delivered(o), fEvt)
               /\ fEvt = dispatched[Len(dispatched)]
               /\ \A p \in Registered :
                     \A k \in 1..(Len(dispatched) - 1) :
                        hasSatisfiedFilters(obsCfg[p], dispatched[k])
                           => dispatched[k] \in RangeOf(Delivered(p))]_vars

\* two events went through the dispatcher and both Observers received both
C24_Witness ==
    /\ Len(dispatched) >= 2
    /\ \A o \in ObsIds : Delivered(o) = SubSeq(dispatched, 1, 2)

\* the Observer has reached its completion condition: First() and one
\* event sent, or Limit(k) and k events counted
Completed(o) ==
    \/ obsCfg[o].closeOnFirst /\ Delivered(o) # <<>>
    \/ obsCfg[o].limit > 0 /\ emittedCount[o] >= obsCfg[o].limit

\* C25: while an event is being dispatched the registration list does not
\* change and holds the Observers that completed during the pass, and the
\* Observers the pass went by whose filters pass have been sent the event;
\* when the dispatcher is ready for the next event no completed Observer is
\* in the list; an Observer that is offered an event is not completed.
C25_RemovalAfterThePass ==
    /\ [](/\ fanoutPc = "loop" =>
                /\ RangeOf(obsForRemoval) \subseteq Registered
                /\ \A i \in 1..(fI - 1) :
                      (/\ observers[i] # NIL
                       /\ hasSatisfiedFilters(obsCfg[observers[i]], fEvt))
                         => fEvt \in RangeOf(Delivered(observers[i]))
          /\ fanoutPc = "recv" =>
                /\ obsForRemoval = <<>>
                /\ \A o \in Registered : ~Completed(o)
          /\ \A o \in ObsIds : Offered(o) => ~Completed(o))
    /\ [][fanoutPc = "loop" /\ fanoutPc' = "loop"
            => UNCHANGED <<observers, obsLen>>]_vars

\* the first Observer completed on the first event and was removed after
\* the pass, in which the second Observer was sent the event too; the
\* second event was sent to the second Observer only
C25_Witness ==
    /\ Len(dispatched) = 2
    /\ Registered = {2}
    /\ EventChCloses[1] = 1
    /\ Delivered(1) = <<dispatched[1]>>
    /\ Delivered(2) = dispatched

\* ------------------------------------ the dispatcher, drop policy -------
\* The Client of SpecDispatch with Options.DropSlowConsumerMsgs set
InitDropPolicy ==
    /\ InitClient(ObserverBuilds, {TRUE}, NumObs, "idle", MaxEvents)
    /\ InitServer({EmitStrategyBlock}, {BufferSizeDefault})
    /\ CodecIdle

NextDropPolicy == NextDispatch \/ FanoutDrop

SpecDropPolicy == InitDropPolicy /\ [][NextDropPolicy]_vars

\* C26: with dropSlowConsumerMsgs set the dispatcher is never blocked at an
\* Observer it offers an event to; a step that passes an offered Observer
\* without sending to it happens only when its queue cannot take the event,
\* leaves every counter, every queue and the removal list as they were and
\* goes on with the pass at the next Observer; so a Limit Observer's count
\* is the number of events sent to it and a First() Observer is collected
\* only after an event was sent to it.
C26_DropNeverBlocksNorCounts ==
    /\ [](/\ \A o \in ObsIds :
               (Alive /\ Offered(o)) =>
                  ENABLED (FanoutDeliver \/ FanoutDrop \/ FanoutStop
                              \/ FanoutSendPanic)
          /\ \A o \in ObsIds :
               /\ IsLimitObs(o) => emittedCount[o] = Len(Delivered(o))
               /\ o \in RangeOf(obsForRemoval) => Completed(o))
    /\ [][\A o \in ObsIds :
            (Offered(o) /\ fI' # fI /\ Delivered(o)' = Delivered(o)) =>
               /\ ~CanSend(o)
               /\ fI' = fI + 1
               /\ fanoutPc' = "loop"
               /\ UNCHANGED <<fEvt, observers, obsLen, emittedCount, EventCh,
                              recvd, obsForRemoval>>]_vars

\* the first event passed the filters of both Observers; it was dropped for
\* the first one, which stays registered with nothing counted, and sent to
\* the second one
C26_Witness ==
    /\ Len(dispatched) = 1
    /\ fanoutPc = "recv"
    /\ hasSatisfiedFilters(obsCfg[1], dispatched[1])
    /\ Delivered(1) = <<>>
    /\ emittedCount[1] = 0
    /\ 1 \in Registered
    /\ Delivered(2) = dispatched

\* C27: once the root scope has been canceled the reconnection loop starts
\* no further connection attempt and offers no 'too many reconnection
\* attempts' error, and when it has returned the Client is Closed.
C27_CancelStopsTheLoop ==
    /\ [][shutdownCtxDone =>
             /\ attempts' = attempts
             /\ fatalOffers' = fatalOffers]_vars
    /\ [](loopPc = "done" => closed)

\* ------------------------------------ the reconnection loop, timed ------
\* The Client with one Observer and a stream without events: attempts fail
\* or connect and end at once, while the clock advances
InitWindow ==
    /\ InitClient({Build(NewObserverBuilder)}, {FALSE}, 1, "idle", 0)
    /\ InitServer({EmitStrategyBlock}, {BufferSizeDefault})
    /\ CodecIdle

NextWindow ==
    \/ TimePasses
    \/ Start \/ StartReturn
    \/ LoopTopTimed \/ ConnectFail \/ ConnectOKWindow \/ NotifyFirstConn
    \/ ScanEOF
    \/ ErrCheck \/ ErrPublish
    \/ LoopCapExceeded \/ LoopBackoff
    \/ FatalPublish
    \/ LoopShutdown \/ LoopDeferredShutdown
    \/ ShutdownCancel \/ ShutdownCloseEventCh \/ ShutdownCloseErrorCh
    \/ ShutdownCloseObserver \/ ShutdownUnlock
    \/ FanoutCheck \/ FanoutRecvClosed

SpecWindow == InitWindow /\ [][NextWindow]_vars

\* the number of attempts, before the latest one, that form with it a run
\* of attempts each started at most 60 seconds after the one before
RECURSIVE Streak(_)
Streak(starts) ==
    IF Len(starts) <= 1
    THEN 0
    ELSE IF starts[Len(starts)] - starts[Len(starts) - 1] > ResetWindow
    THEN 0
    ELSE 1 + Streak(SubSeq(starts, 1, Len(starts) - 1))

\* C28: at the start of a connection attempt the counter is set to zero
\* exactly when it is the first attempt or more than 60 seconds have passed
\* since the previous attempt started, and keeps its value otherwise; so
\* during an attempt the counter is the number of attempts before it that
\* were each started at most 60 seconds after the one before.
C28_ResetAfterSixtySeconds ==
    /\ [][attempts' # attempts =>
            /\ attemptAt' = Append(attemptAt, now)
            /\ retryCounter' =
                  IF attemptAt = <<>>
                        \/ now - attemptAt[Len(attemptAt)] > ResetWindow
                  THEN 0
                  ELSE retryCounter]_vars
    /\ [](loopPc \notin {"idle", "top"} =>
             retryCounter = Streak(attemptAt))

\* an attempt started exactly 60 seconds after the previous one kept the
\* counter, the next one, 61 seconds later, reset it
C28_Witness ==
    /\ Len(attemptAt) = 3
    /\ attemptAt[2] - attemptAt[1] = ResetWindow
    /\ attemptAt[3] - attemptAt[2] = ResetWindow + 1
    /\ loopPc = "connect"
    /\ retryCounter = 0
    /\ resets = 1

\* C31: Emit never sends on a subscriber queue that has been closed: no
\* step of a broadcast, under any strategy, is a send on a closed queue.
C31_EmitNeverSendsOnClosedQueue ==
    [][~(\E c \in ConnIds : EmitPanic(c))]_vars

\* C32: the connection handler never sends on the connection's data queue
\* after the Middleware has closed it.
C32_HandlerNeverSendsOnClosedData ==
    [][~(\E c \in ConnIds : HForwardPanic(c))]_vars

\* C33: Shutdown running while the Client streams never causes a send on a
\* closed channel: no step is a publish of the decoder on the closed raw
\* event channel, a publish of the reconnection loop on the closed error
\* channel, or a delivery of the dispatcher on a closed Observer queue.
C33_ShutdownNeverCausesSendOnClosed ==
    [][~(\/ SendPanic
         \/ ErrPublishPanic
         \/ FatalPublishPanic
         \/ FanoutSendPanic)]_vars

\* C34: every call of Start returns: once the Client is Closed and the
\* reconnection loop has returned, a call of Start that is still waiting
\* for the ready notification is released.
C34_StartReleasedWhenClosed ==
    (/\ Alive
     /\ closed
     /\ sdPc = "idle"
     /\ loopPc = "done"
     /\ startPc = "waitFirstConn")
        => ENABLED StartReturn

\* C35: the reconnection loop never blocks on signalling readiness: a
\* validated connection can always go on to Streaming.  (The wait of a
\* second connection for a Start that has yet to take the first
\* notification is not counted: Start has returned.)
C35_ReadySignalNeverBlocks ==
    (/\ Alive
     /\ loopPc = "notify"
     /\ startPc = "returned")
        => ENABLED NotifyFirstConn

\* ------------------------------------ the Client meets the server -------
\* connectAndListen 348-363 against this server: the response the client
\* validates is the head and the on-connect heartbeat that the Middleware
\* has written and flushed for connection c
ConnectVia(c) ==
    /\ mwPc[c] # "idle"
    /\ written[c] # <<>>
    /\ ConnectOK

\* The Client is started against the server; the connection stays up, and
\* a producer calls Emit
InitHandshake ==
    /\ InitClient({Build(NewObserverBuilder)}, {FALSE}, 0, "idle", 0)
    /\ InitServer({EmitStrategyBlock}, {BufferSizeDefault})
    /\ CodecIdle

NextHandshake ==
    \/ Start \/ StartReturn \/ FanoutCheck
    \/ LoopTop \/ NotifyFirstConn
    \/ \E c \in ConnIds :
          \/ ConnectVia(c)
          \/ MwAccept(c) \/ MwData(c)
          \/ HStore(c) \/ HRecv(c) \/ HForward(c)
          \/ EmitSend(c)
    \/ EmitBegin \/ EmitEnd

SpecHandshake == InitHandshake /\ [][NextHandshake]_vars

\* C36: when Start has returned, the client's connection is in the server's
\* Subscriber Registry, so that an Emit which begins after Start returned
\* finds a subscriber to enqueue the event for.
C36_RegisteredWhenStartReturns ==
    /\ [](startPc = "returned" => subscribers # {})
    /\ [][(startPc = "returned" /\ emitPc = "idle" /\ emitPc' = "range")
             => emitSnap' # {}]_vars

\* C37: the retry cap counts only failed attempts: the counter never exceeds
\* the number of attempts that were not validated connections, and within
\* one 60 second window the fatal error is offered only after RetryCap + 2
\* such attempts.
C37_CapCountsOnlyFailures ==
    /\ retryCounter <= attempts - connects
    /\ (fatalOffers > 0 /\ resets = 0) =>
          attempts - connects >= RetryCap + 2

\* ------------------------------------ Subscribe after Start -------------
\* Subscribe 415-425 called once Start has been called:
\* c.observers = append(c.observers, o), without the lock
Subscribe(o) ==
    /\ Alive
    /\ startPc # "init"
    /\ o \notin Registered
    /\ EventChCloses[o] = 0
    /\ obsLen < NumObs
    /\ observers' = [observers EXCEPT ![obsLen + 1] = o]
    /\ obsLen' = obsLen + 1
    /\ UNCHANGED <<serverVars, ctrlDone, cfgVars, emittedCount, EventCh,
                   EventChCloses, cliVars, loopVars, fanVars, sdVars, rdVars,
                   histVars, panicked, startPc, errPc>>

\* the append races with the dispatcher's unsynchronised reads of
\* c.observers at fanout 270-271: the dispatcher may read a slice header
\* that is half written and index memory that is not the list
SubscribeTorn(o) ==
    /\ Alive
    /\ startPc # "init"
    /\ o \notin Registered
    /\ obsLen < NumObs
    /\ fanoutPc = "loop"
    /\ panicked' = "invalid memory address or nil pointer dereference"
    /\ UNCHANGED <<serverVars, ctrlDone, cfgVars, obsVars, cliVars, loopVars,
                   fanVars, sdVars, rdVars, histVars, startPc, errPc>>

\* The Client is started with no Observer registered; Observers without a
\* limit are subscribed later and drained by WaitForAll
InitLateSubscribe ==
    /\ InitClient({Build(NewObserverBuilder)}, {FALSE}, 0, "idle", MaxEvents)
    /\ InitServer({EmitStrategyBlock}, {BufferSizeDefault})
    /\ CodecIdle

NextLateSubscribe ==
    \/ Start \/ StartReturn
    \/ LoopTop \/ ConnectOK \/ NotifyFirstConn
    \/ ScanEvent \/ SendEvent
    \/ FanoutCheck \/ FanoutSkip \/ FanoutDeliver \/ FanoutEndPass
    \/ \E o \in ObsIds : Subscribe(o) \/ SubscribeTorn(o) \/ WaitForAll(o)

SpecLateSubscribe == InitLateSubscribe /\ [][NextLateSubscribe]_vars

\* C38: an Observer subscribed after Start is served by the dispatcher:
\* while the Client is open and an Observer is registered, the dispatcher
\* has not ended.
C38_LateObserverIsServed ==
    (/\ Alive
     /\ ~closed
     /\ eventChCloses = 0
     /\ Registered # {})
        => fanoutPc # "exited"

\* C39: after WaitForAllOrTimeout has returned the timeout failure, its
\* drain task ends once the Observer's queue is closed: when its range over
\* the queue is over, it is not blocked in handing over its result.
C39_DrainTaskEndsAfterTimeout ==
    \A o \in ObsIds :
        (/\ Alive
         /\ waitPc[o] = "timeout"
         /\ readerPc[o] = "done")
            => ENABLED WaitHandOver(o)

====
